---- MODULE Spec2Model ----
(***************************************************************************)
(* A model of prody/atomic.py: the AtomGroup store (coordinate sets,       *)
(* active coordinate set index, trajectory association, data arrays), the  *)
(* pointer views over it, and saveAtoms/loadAtoms.                         *)
(*                                                                         *)
(* Conventions.  Python indices are kept 0-based; a Python sequence x is a *)
(* TLA+ sequence read as x[i+1].  A coordinate array of shape (k,n,3) is a *)
(* sequence of k coordinate sets, each a sequence of n rows; one row (the  *)
(* three floats of an atom) is one value, 0 or 1.  A Python value         *)
(* that is either None or an array is a record [some, val].  An integer    *)
(* that may be None is an integer with NoneInt standing for None.  A call  *)
(* that raises leaves the store as the code has left it at the raise; the  *)
(* exception's class is recorded in op.err.                                *)
(***************************************************************************)
EXTENDS Integers, Sequences, FiniteSets, TLC

VARIABLES ag, tnext, views, now, op, ret, newmol

vars == <<ag, tnext, views, now, op, ret, newmol>>

----
\* Bounds of the model.
MaxAtoms == 2
MaxCsets == 3
MaxNew == 2
MaxViews == 2
NFrames == 2
LongFrames == 4
MaxLabels == 4
HierAtoms == 3
MaxTime == 2

----
\* Optional values.
NoneInt == -1
NoneArr == [some |-> FALSE, val |-> <<>>]
Some(v) == [some |-> TRUE, val |-> v]

\* A variant of Min that does not compare: the second argument.
SecondOf(a, b) == b

Min(a, b) == IF a < b THEN a ELSE b

\* x * n on a Python list of one element.
Repeat(x, n) == [j \in 1..n |-> x]

\* Python/numpy indexing of a sequence with a sequence of 0-based indices.
Take(seq, which) == [j \in 1..Len(which) |-> seq[which[j] + 1]]

\* A variant of AllBut that leaves out the last index whatever i is.
AllButLast(k, i) == [j \in 1..(k - 1) |-> j - 1]

\* 0-based indices 0..k-1 in ascending order with index i left out.
AllBut(k, i) == [j \in 1..(k - 1) |-> IF j - 1 < i THEN j - 1 ELSE j]

----
\* The data fields of the model: the built-in fields and one user label.
Fields == {"names", "serials", "chids", "resnums", "icodes"}
UserLabels == {"flag"}

\* The labels setData is called with, and the characters of each.
Labels == {"", "flag", "a_1", "a b", "a-b", "1a", "_a", "or"}

Chars(label) ==
    CASE label = "" -> <<>>
      [] label = "flag" -> <<"f", "l", "a", "g">>
      [] label = "a_1" -> <<"a", "_", "1">>
      [] label = "a b" -> <<"a", " ", "b">>
      [] label = "a-b" -> <<"a", "-", "b">>
      [] label = "1a" -> <<"1", "a">>
      [] label = "_a" -> <<"_", "a">>
      [] label = "or" -> <<"o", "r">>

DataKeys == Fields \cup Labels

\* Field.none: the cache that setting the field resets.
FieldNone(var) ==
    CASE var = "serials" -> "sn2i"
      [] var \in {"chids", "resnums", "icodes"} -> "hv"
      [] OTHER -> ""

\* AtomGroup.__init__
NewAtomGroup ==
    [n_atoms |-> 0,
     coordinates |-> NoneArr,
     cslabels |-> Some(<<>>),
     acsi |-> NoneInt,
     n_csets |-> 0,
     hv |-> NoneArr,
     sn2i |-> NoneArr,
     trajectory |-> FALSE,
     tcsi |-> NoneInt,
     timestamps |-> NoneArr,
     data |-> [k \in DataKeys |-> NoneArr]]

Ok(s) == [ag |-> s, err |-> ""]
Raise(s, e) == [ag |-> s, err |-> e]

\* Number of rows of the coordinate sets of a non-empty stack.
EntityDim(stack) == Len(stack[1])

\* tools.checkCoords(coords, cset=True, n_atoms=n, reshape=True): the array
\* must have n rows per set when n is set; a 2-d array becomes one set.
checkCoords(arr, n) ==
    IF n # 0 /\ EntityDim(arr.stack) # n
    THEN [err |-> "ValueError", stack |-> <<>>]
    ELSE [err |-> "", stack |-> arr.stack]

\* AtomGroup._setTimeStamp(index)
setTimeStamp(s, index, t) ==
    IF index = NoneInt
    THEN Ok([s EXCEPT !.timestamps = Some(Repeat(t, s.n_csets))])
    ELSE IF ~s.timestamps.some THEN Raise(s, "TypeError")
    ELSE IF index >= Len(s.timestamps.val) THEN Raise(s, "IndexError")
    ELSE Ok([s EXCEPT !.timestamps.val[index + 1] = t])

\* numpy assignment target[...] = source for row blocks: the source must
\* have as many rows as the target, or one row, which is broadcast.
CanAssign(target, source) ==
    Len(source) = Len(target) \/ Len(source) = 1

AssignRows(target, source) ==
    [r \in 1..Len(target) |->
        IF Len(source) = Len(target) THEN source[r] ELSE source[1]]

\* list[index] = x on an optional Python list.
ListSet(s, index, x) ==
    IF ~s.cslabels.some THEN Raise(s, "TypeError")
    ELSE IF index >= Len(s.cslabels.val) THEN Raise(s, "IndexError")
    ELSE Ok([s EXCEPT !.cslabels.val[index + 1] = x])

\* The label arguments: None, a string, or a list of strings.
NoLabel == [kind |-> "none", val |-> <<>>]
LabelItem(label) == IF label.kind = "none" THEN "None" ELSE label.val[1]

\* AtomGroup.setCoords, the label handling that follows the first
\* assignment of coordinates (lines 989-997).
setCoordsFirstLabels(s, label) ==
    IF label.kind \in {"none", "str"}
    THEN [s EXCEPT !.cslabels = Some(Repeat(LabelItem(label), s.n_csets))]
    ELSE IF Len(label.val) = s.n_csets
         THEN [s EXCEPT !.cslabels = Some(label.val)]
         ELSE [s EXCEPT !.cslabels = Some(Repeat("None", s.n_csets))]

\* AtomGroup.setCoords, the label handling at the end when the whole stack
\* was assigned (lines 1011-1024).
setCoordsAllLabels(s, label) ==
    IF label.kind \in {"none", "str"}
    THEN Ok([s EXCEPT !.cslabels = Some(Repeat(LabelItem(label), s.n_csets))])
    ELSE IF Len(label.val) = s.n_csets
         THEN IF ~s.cslabels.some THEN Raise(s, "TypeError")
              ELSE Ok([s EXCEPT !.cslabels.val = @ \o label.val])
         ELSE Ok(s)

\* AtomGroup.setCoords, the label handling at the end when only the active
\* set was assigned (lines 1025-1037).
setCoordsOneLabel(s, acsi, label) ==
    IF label.kind = "none" THEN Ok(s)
    ELSE IF label.kind = "str" THEN ListSet(s, acsi, label.val[1])
    ELSE IF Len(label.val) = 1 THEN ListSet(s, acsi, "list")
    ELSE Ok(s)

\* A variant of setCoordsets that keeps the old number of coordinate sets.
setCoordsetsKeepCount(s, stack) ==
    [s EXCEPT !.coordinates = Some(stack),
              !.acsi = Min(Len(stack) - 1, s.acsi)]

\* AtomGroup.setCoords, the assignment of the whole stack when the store
\* has coordinates (lines 1007-1009).
setCoordsets(s, stack) ==
    [s EXCEPT !.coordinates = Some(stack),
              !.n_csets = Len(stack),
              !.acsi = Min(Len(stack) - 1, s.acsi)]

\* A variant of setActiveCoordset that assigns the first coordinate set.
setFirstCoordset(s, cset) ==
    [s EXCEPT !.coordinates.val[1] = AssignRows(@, cset)]

\* AtomGroup.setCoords, the assignment of the active set (lines 1001-1002).
setActiveCoordset(s, cset) ==
    [s EXCEPT !.coordinates.val[s.acsi + 1] = AssignRows(@, cset)]

\* AtomGroup.setCoords(coords, label)
setCoords(s, arr, label, t) ==
    LET cc == checkCoords(arr, s.n_atoms)
        stack == cc.stack
        s1 == IF s.n_atoms = 0
              THEN [s EXCEPT !.n_atoms = EntityDim(stack)] ELSE s
    IN  IF cc.err # "" THEN Raise(s, cc.err)
        ELSE IF ~s1.coordinates.some
        THEN LET s2 == [s1 EXCEPT !.coordinates = Some(stack),
                                  !.n_csets = Len(stack),
                                  !.acsi = 0]
                 s3 == setTimeStamp(s2, NoneInt, t).ag
             IN  setCoordsAllLabels(setCoordsFirstLabels(s3, label), label)
        ELSE IF Len(stack) = 1
        THEN LET acsi == s1.acsi
             IN  IF acsi >= Len(s1.coordinates.val) THEN Raise(s1, "IndexError")
                 ELSE IF ~CanAssign(s1.coordinates.val[acsi + 1], stack[1])
                 THEN Raise(s1, "ValueError")
                 ELSE LET s2 == setActiveCoordset(s1, stack[1])
                          r3 == setTimeStamp(s2, acsi, t)
                          r4 == IF label.kind = "str"
                                THEN ListSet(r3.ag, acsi, label.val[1])
                                ELSE r3
                      IN  IF r3.err # "" THEN r3
                          ELSE IF r4.err # "" THEN r4
                          ELSE setCoordsOneLabel(r4.ag, acsi, label)
        ELSE LET s3 == setTimeStamp(setCoordsets(s1, stack), NoneInt, t).ag
             IN  setCoordsAllLabels(s3, label)

\* list += items on an optional Python list.
ListExtend(s, items) ==
    IF ~s.cslabels.some THEN Raise(s, "TypeError")
    ELSE Ok([s EXCEPT !.cslabels.val = @ \o items])

\* AtomGroup.addCoordset, the extension of the time stamps (lines 1065-1068).
addTimeStamps(s, old, t) ==
    LET zeros == [s EXCEPT !.timestamps = Some(Repeat(0, s.n_csets))]
    IN  IF ~old.some THEN Raise(zeros, "TypeError")
        ELSE IF Len(old.val) > s.n_csets THEN Raise(zeros, "ValueError")
        ELSE Ok([s EXCEPT !.timestamps =
                     Some([j \in 1..s.n_csets |->
                             IF j <= Len(old.val) THEN old.val[j] ELSE t])])

\* A variant of concatCoordsets that puts the new sets first.
prependCoordsets(s, stack) ==
    [s EXCEPT !.coordinates.val = stack \o @,
              !.n_csets = Len(s.coordinates.val) + Len(stack)]

\* AtomGroup.addCoordset, the concatenation (lines 1063-1064).
concatCoordsets(s, stack) ==
    [s EXCEPT !.coordinates.val = @ \o stack,
              !.n_csets = Len(s.coordinates.val) + Len(stack)]

\* AtomGroup.addCoordset(coords, label)
addCoordset(s, arr, label, t) ==
    IF s.trajectory THEN Raise(s, "AttributeError")
    ELSE IF ~s.coordinates.some THEN setCoords(s, arr, NoLabel, t)
    ELSE LET cc == checkCoords(arr, s.n_atoms)
             diff == Len(cc.stack)
         IN  IF cc.err # "" THEN Raise(s, cc.err)
             ELSE IF EntityDim(cc.stack) # EntityDim(s.coordinates.val)
             THEN Raise(s, "ValueError")
             ELSE LET s1 == concatCoordsets(s, cc.stack)
                      r2 == addTimeStamps(s1, s.timestamps, t)
                  IN  IF r2.err # "" THEN r2
                      ELSE IF label.kind \in {"none", "str"}
                      THEN ListExtend(r2.ag, Repeat(LabelItem(label), diff))
                      ELSE IF Len(label.val) = diff
                      THEN ListExtend(r2.ag, label.val)
                      ELSE r2

\* numpy array[which] on the optional time stamp array.
TakeTimeStamps(s, which) ==
    IF ~s.timestamps.some THEN Raise(s, "TypeError")
    ELSE IF \E j \in 1..Len(which) : which[j] >= Len(s.timestamps.val)
    THEN Raise(s, "IndexError")
    ELSE Ok([s EXCEPT !.timestamps.val = Take(@, which)])

\* AtomGroup.delCoordset(index)
delCoordset(s, index) ==
    IF s.n_csets = 0 THEN Raise(s, "AttributeError")
    ELSE IF s.trajectory THEN Raise(s, "AttributeError")
    ELSE IF index >= s.n_csets \/ index < -s.n_csets
    THEN Raise(s, "IndexError")
    ELSE LET i == IF index < 0 THEN index + s.n_csets ELSE index
             which == AllBut(s.n_csets, i)
         IN  IF Len(which) = 0
             THEN TakeTimeStamps([s EXCEPT !.coordinates = NoneArr,
                                           !.n_csets = 0,
                                           !.acsi = NoneInt,
                                           !.cslabels = NoneArr], which)
             ELSE LET s1 == [s EXCEPT !.coordinates.val = Take(@, which),
                                      !.n_csets = Len(which),
                                      !.acsi = 0]
                  IN  IF ~s1.cslabels.some THEN Raise(s1, "TypeError")
                      ELSE IF \E j \in 1..Len(which) :
                                 which[j] >= Len(s1.cslabels.val)
                      THEN Raise(s1, "IndexError")
                      ELSE TakeTimeStamps(
                               [s1 EXCEPT !.cslabels.val = Take(@, which)],
                               which)

\* AtomGroup.setACSIndex(index)
setACSIndex(s, index) ==
    LET s1 == IF s.n_csets = 0 THEN [s EXCEPT !.acsi = 0] ELSE s
    IN  IF s1.n_csets <= index \/ s1.n_csets < -index
        THEN Raise(s1, "IndexError")
        ELSE Ok([s1 EXCEPT !.acsi = IF index < 0 THEN index + s1.n_csets
                                   ELSE index])

----
\* The trajectory source (prody.ensemble.Trajectory): NFrames frames for
\* MaxAtoms atoms, read in order from the position tnext.
TrajNumAtoms == MaxAtoms

\* The coordinate set of frame f of the source.
Frame(f) ==
    [r \in 1..TrajNumAtoms |-> IF f % 2 = 0 THEN 0 ELSE r % 2]

\* One coordinate set as the (n,3) array nextCoordset returns.
Array2(cset) == [ndim |-> 2, stack |-> <<cset>>]

RaiseT(s, tn, e) == [ag |-> s, tnext |-> tn, err |-> e]

\* list.pop() on the optional label list.
ListPop(s) ==
    IF ~s.cslabels.some THEN Raise(s, "AttributeError")
    ELSE IF Len(s.cslabels.val) = 0 THEN Raise(s, "IndexError")
    ELSE Ok([s EXCEPT !.cslabels.val = SubSeq(@, 1, Len(@) - 1)])

\* AtomGroup.setTrajectory(None)
unsetTrajectory(s) ==
    LET s1 == [s EXCEPT !.tcsi = NoneInt, !.trajectory = FALSE]
        r2 == delCoordset(s1, s1.acsi)
    IN  IF r2.err # "" THEN r2 ELSE ListPop(r2.ag)

\* AtomGroup.setTrajectory(trajectory) for a trajectory at position tn
setTrajectory(s, tn, t) ==
    IF s.n_atoms # TrajNumAtoms THEN RaiseT(s, tn, "ValueError")
    ELSE LET s1 == [s EXCEPT !.tcsi = tn]
             r2 == ListExtend(s1, <<"traj">>)
             r3 == addCoordset(r2.ag, Array2(Frame(tn)), NoLabel, t)
         IN  IF r2.err # "" THEN RaiseT(r2.ag, tn, "AttributeError")
             ELSE IF r3.err # "" THEN RaiseT(r3.ag, tn + 1, r3.err)
             ELSE [ag |-> [r3.ag EXCEPT !.acsi = r3.ag.n_csets - 1,
                                        !.trajectory = TRUE],
                   tnext |-> tn + 1, err |-> ""]

\* The assignment self._coordinates[self._acsi] = frame and the time stamp
\* that follows it in nextFrame and gotoFrame.
readFrame(s, tn, t) ==
    IF ~s.coordinates.some THEN RaiseT(s, tn + 1, "TypeError")
    ELSE IF s.acsi >= Len(s.coordinates.val)
    THEN RaiseT(s, tn + 1, "IndexError")
    ELSE IF ~CanAssign(s.coordinates.val[s.acsi + 1], Frame(tn))
    THEN RaiseT(s, tn + 1, "ValueError")
    ELSE LET s1 == [s EXCEPT !.coordinates.val[s.acsi + 1] =
                               AssignRows(@, Frame(tn))]
             r2 == setTimeStamp(s1, s1.acsi, t)
         IN  [ag |-> r2.ag, tnext |-> tn + 1, err |-> r2.err]

\* AtomGroup.nextFrame(step)
nextFrame(s, tn, step, t) ==
    IF ~s.trajectory THEN RaiseT(s, tn, "AttributeError")
    ELSE LET nfi == tn
             tn1 == IF step > 1 THEN tn + (step - 1) ELSE tn
         IN  IF nfi - s.tcsi = 1
             THEN readFrame([s EXCEPT !.tcsi = nfi], tn1, t)
             ELSE RaiseT(s, tn1, "AttributeError")

\* AtomGroup.gotoFrame(n)
gotoFrame(s, tn, n, t) ==
    IF ~s.trajectory THEN RaiseT(s, tn, "AttributeError")
    ELSE readFrame([s EXCEPT !.tcsi = n], n, t)

----
\* The array arguments of the data setters: a list or an ndarray (kind) of
\* ndim dimensions whose len() is Len(val); kind "other" is any other type
\* that has a len(), such as a tuple or a string.
DataArg(kind, ndim, val) == [kind |-> kind, ndim |-> ndim, val |-> val]

\* The reset of the cache named by Field.none.
ResetNone(s, var) ==
    IF FieldNone(var) = "sn2i" THEN [s EXCEPT !.sn2i = NoneArr]
    ELSE IF FieldNone(var) = "hv" THEN [s EXCEPT !.hv = NoneArr]
    ELSE s

\* A variant of setField without the comparison of len(array) and n_atoms.
setFieldAnyLength(s, var, array) ==
    LET s1 == IF s.n_atoms = 0
              THEN [s EXCEPT !.n_atoms = Len(array.val)] ELSE s
    IN  IF array.kind = "list"
        THEN Ok(ResetNone([s1 EXCEPT !.data[var] = Some(array.val)], var))
        ELSE IF array.kind # "ndarray" THEN Raise(s1, "TypeError")
        \* Field.ndim is 1 for the fields of the model (per-atom scalars).
        ELSE IF array.ndim # 1 THEN Raise(s1, "ValueError")
        ELSE Ok(ResetNone([s1 EXCEPT !.data[var] = Some(array.val)], var))

\* AtomGroupMeta.__init__.setData: the set method of a built-in field.
setField(s, var, array) ==
    LET s1 == IF s.n_atoms = 0
              THEN [s EXCEPT !.n_atoms = Len(array.val)] ELSE s
    IN  IF s.n_atoms # 0 /\ Len(array.val) # s.n_atoms
        THEN Raise(s, "ValueError")
        ELSE IF array.kind = "list"
        THEN Ok(ResetNone([s1 EXCEPT !.data[var] = Some(array.val)], var))
        ELSE IF array.kind # "ndarray" THEN Raise(s1, "TypeError")
        \* Field.ndim is 1 for the fields of the model (per-atom scalars).
        ELSE IF array.ndim # 1 THEN Raise(s1, "ValueError")
        ELSE Ok(ResetNone([s1 EXCEPT !.data[var] = Some(array.val)], var))

\* str.isalpha and str.isalnum of one character.
isalpha(c) == c \in {"a", "b", "f", "g", "l", "o", "r"}
isalnumChar(c) == isalpha(c) \/ c \in {"1"}

\* str.isalnum(): the string is not empty and all its characters are
\* alphanumeric.
isalnum(chars) ==
    Len(chars) > 0 /\ \A j \in 1..Len(chars) : isalnumChar(chars[j])

\* ''.join(chars.split(sep)) for a separator of one character, and
\* ''.join(chars.split()) for sep = " ": the string without its separators.
RemoveChar(chars, sep) == SelectSeq(chars, LAMBDA c : c # sep)

\* prody.select.isReserved(label): the reserved words and selection
\* keywords among the labels.
isReserved(label) == label \in {"or"}

\* The checks of the label in setData (lines 1359-1371): "" when the label
\* passes, else the exception.
checkLabel(label) ==
    IF label = "" THEN "ValueError"
    ELSE IF ~isalpha(Chars(label)[1]) THEN "ValueError"
    ELSE IF ~isalnum(RemoveChar(RemoveChar(Chars(label), "_"), " "))
    THEN "ValueError"
    ELSE IF isReserved(label) THEN "ValueError"
    ELSE ""

\* AtomGroup.setData(label, data)
setData(s, label, data) ==
    IF checkLabel(label) # "" THEN Raise(s, "ValueError")
    ELSE IF Len(data.val) # s.n_atoms THEN Raise(s, "ValueError")
    ELSE IF data.kind \notin {"list", "ndarray"} THEN Raise(s, "TypeError")
    ELSE Ok([s EXCEPT !.data[label] = Some(data.val)])

\* AtomGroup.delData(label)
delData(s, label) ==
    IF label \in DOMAIN s.data
    THEN Ok([s EXCEPT !.data[label] = NoneArr])
    ELSE Ok(s)

----
\* saveAtoms(atoms) for an AtomGroup: the dictionary written to the file.
\* getCSLabels() is None when there are no coordinate sets.
saveAtoms(s) ==
    [n_atoms |-> s.n_atoms,
     n_csets |-> s.n_csets,
     cslabels |-> IF s.n_csets # 0 THEN s.cslabels ELSE NoneArr,
     coordinates |-> s.coordinates,
     data |-> s.data]

\* loadAtoms(filename) for a file of the current layout.  The result is the
\* new AtomGroup; when the call raises there is none.
loadAtoms(file) ==
    LET s1 == [NewAtomGroup EXCEPT !.coordinates = file.coordinates,
                                   !.n_atoms = file.n_atoms,
                                   !.n_csets = file.n_csets,
                                   !.data = [k \in DataKeys |->
                                       IF k \in Fields THEN file.data[k]
                                       ELSE NoneArr]]
        labels == {k \in Labels : file.data[k].some}
        s2 == [s1 EXCEPT !.data = [k \in DataKeys |->
                                       IF k \in Fields THEN s1.data[k]
                                       ELSE file.data[k]]]
        s3 == IF s2.n_csets > 0 THEN [s2 EXCEPT !.acsi = 0] ELSE s2
    IN  IF \E k \in labels : Len(file.data[k].val) # file.n_atoms
        THEN Raise(s1, "ValueError")
        ELSE IF ~file.cslabels.some THEN Raise(s3, "TypeError")
        ELSE IF Len(file.cslabels.val) # s3.n_csets
        THEN Raise(s3, "ValueError")
        ELSE Ok([s3 EXCEPT !.cslabels = file.cslabels])

\* The methods saveAtoms calls on its argument (lines 3167-3170) that the
\* class of a view defines: Atom defines no numAtoms(), and getCSLabels() is
\* defined by AtomGroup alone.
Defines(kind, method) ==
    CASE method = "numAtoms" -> kind # "Atom"
      [] method = "getCSLabels" -> FALSE
      [] OTHER -> TRUE

\* saveAtoms(atoms) for a view of store s: the file, or the exception of
\* the first call of a method the view does not define.  The count of atoms
\* and the coordinate sets are those of the view, the field arrays and the
\* user data are the whole arrays of the store (ag._data).
saveAtomsView(s, v) ==
    IF \E method \in {"numAtoms", "numCoordsets", "getCSLabels",
                      "_getCoordsets"} : ~Defines(v.kind, method)
    THEN [err |-> "AttributeError"]
    ELSE [err |-> "",
          file |-> [n_atoms |-> IF v.kind = "AtomMap" THEN v.len
                                ELSE Len(v.indices),
                    n_csets |-> s.n_csets,
                    cslabels |-> IF s.n_csets # 0 THEN s.cslabels
                                 ELSE NoneArr,
                    coordinates |->
                        IF ~s.coordinates.some THEN NoneArr
                        ELSE Some([c \in 1..Len(s.coordinates.val) |->
                                      Take(s.coordinates.val[c], v.indices)]),
                    data |-> s.data]]

----
\* numpy.zeros(n) as the array argument of a set method.
Zeros(n) == DataArg("ndarray", 1, Repeat(0, n))

\* HierView.update, the loop over the chain identifiers chids of the atoms
\* at indices, from position i: an identifier that no chain has yet makes a
\* Chain of the indices from i on whose identifier it is.
RECURSIVE updateChains(_, _, _, _, _)
updateChains(chids, indices, acsi, i, chains) ==
    IF i > Len(chids) THEN chains
    ELSE IF \E c \in 1..Len(chains) : chains[c].chid = chids[i]
    THEN updateChains(chids, indices, acsi, i + 1, chains)
    ELSE LET at == SelectSeq([j \in 1..(Len(indices) - i + 1) |-> j + i - 1],
                             LAMBDA j : chids[j] = chids[i])
         IN  updateChains(chids, indices, acsi, i + 1,
                 Append(chains,
                        [kind |-> "Chain",
                         indices |-> [k \in 1..Len(at) |-> indices[at[k]]],
                         acsi |-> acsi, chid |-> chids[i], dict |-> <<>>]))

\* A variant of updateResidues that stores the indices of the chain as one
\* run.
updateResiduesOneRun(keys, indices, acsi, i, start, dict) ==
    <<[kind |-> "Residue", indices |-> indices, acsi |-> acsi,
       res |-> keys[Len(indices)]]>>

\* HierView.update, the loop over the indices of one chain from position i.
\* keys[j] is (resnum, icode) of the atom at position j, start the position
\* at which the current run began; a run that ends is stored in _dict as a
\* Residue under the key of the run, joined to the Residue the key has.
RECURSIVE updateResidues(_, _, _, _, _, _)
updateResidues(keys, indices, acsi, i, start, dict) ==
    LET put(res, run) ==
            IF \E d \in 1..Len(dict) : dict[d].res = res
            THEN [d \in 1..Len(dict) |->
                     IF dict[d].res = res
                     THEN [dict[d] EXCEPT !.indices = @ \o run]
                     ELSE dict[d]]
            ELSE Append(dict, [kind |-> "Residue", indices |-> run,
                               acsi |-> acsi, res |-> res])
    IN  IF i > Len(indices)
        THEN put(keys[Len(indices)], SubSeq(indices, start, Len(indices)))
        ELSE IF keys[i] # keys[start]
        THEN updateResidues(keys, indices, acsi, i + 1, i,
                            put(keys[start], SubSeq(indices, start, i - 1)))
        ELSE updateResidues(keys, indices, acsi, i + 1, start, dict)

\* HierView.update for the target atoms: an AtomGroup (group is TRUE) or a
\* Selection with these indices.  Chain identifiers, residue numbers and
\* insertion codes that are None are set to zeros(n_atoms), the empty string
\* being 0; chains is the ordered dictionary _chains, each Chain with its
\* ordered dictionary _dict of Residues.  Reading an array at an index it
\* does not have raises IndexError.
updateHierView(s, group, selected) ==
    LET zeros(t, var) ==
            IF ~t.data[var].some
            THEN setField(t, var, Zeros(t.n_atoms)).ag ELSE t
        residues(s3, chains, resnums, icodes, skip) ==
            LET read == UNION {{chains[c].indices[j] :
                                   j \in 1..Len(chains[c].indices)}
                               : c \in 1..Len(chains)}
                keys(chain) ==
                    [j \in 1..Len(chain.indices) |->
                        <<resnums[chain.indices[j] + 1],
                          IF skip THEN 0 ELSE icodes[chain.indices[j] + 1]>>]
            IN  IF \E idx \in read : idx >= Len(resnums)
                THEN [ag |-> s3, err |-> "IndexError", chains |-> <<>>]
                ELSE IF ~skip /\ \E idx \in read : idx >= Len(icodes)
                THEN [ag |-> s3, err |-> "IndexError", chains |-> <<>>]
                ELSE [ag |-> s3, err |-> "",
                      chains |-> [c \in 1..Len(chains) |->
                          [chains[c] EXCEPT !.dict =
                              updateResidues(keys(chains[c]),
                                             chains[c].indices,
                                             s.acsi, 1, 1, <<>>)]]]
        chains(s1, s3, indices, all) ==
            IF ~group /\ \E j \in 1..Len(indices) : indices[j] >= Len(all)
            THEN [ag |-> s1, err |-> "IndexError", chains |-> <<>>]
            ELSE residues(
                     s3,
                     updateChains(
                         IF group THEN all
                         ELSE [j \in 1..Len(indices) |-> all[indices[j] + 1]],
                         indices, s.acsi, 1, <<>>),
                     s3.data["resnums"].val,
                     s3.data["icodes"].val,
                     ~s.data["icodes"].some
                         \/ \A j \in 1..Len(s3.data["icodes"].val) :
                                s3.data["icodes"].val[j] = 0)
        arrays(s1) ==
            chains(s1, zeros(zeros(s1, "resnums"), "icodes"),
                   IF group THEN [j \in 1..s.n_atoms |-> j - 1] ELSE selected,
                   s1.data["chids"].val)
    IN  arrays(zeros(s, "chids"))

\* A variant of getHierView that builds the view at every call.
getHierViewEveryCall(s) ==
    LET cache(r) == IF r.err # "" THEN Raise(r.ag, r.err)
                    ELSE Ok([r.ag EXCEPT !.hv = Some(r.chains)])
    IN  cache(updateHierView(s, TRUE, <<>>))

\* AtomGroup.getHierView(): the hierarchical view is built when none is
\* cached, and cached.
getHierView(s) ==
    IF s.hv.some THEN Ok(s)
    ELSE LET cache(r) == IF r.err # "" THEN Raise(r.ag, r.err)
                         ELSE Ok([r.ag EXCEPT !.hv = Some(r.chains)])
         IN  cache(updateHierView(s, TRUE, <<>>))

\* Selection.getHierView(): a hierarchical view is built at every call.
selectionGetHierView(s, v) == updateHierView(s, FALSE, v.indices)

----
\* The read methods.

\* AtomGroup.numAtoms()
numAtoms(s) == s.n_atoms

\* AtomGroup.numCoordsets()
numCoordsets(s) == s.n_csets

\* AtomGroup.getACSIndex()
getACSIndex(s) == s.acsi

\* AtomGroup.getCoords(): None, or a copy of the active coordinate set.
getCoords(s) ==
    IF ~s.coordinates.some THEN NoneArr
    ELSE Some(s.coordinates.val[s.acsi + 1])

\* AtomGroup.getCoordsets(): None, or a copy of all coordinate sets.
getCoordsets(s) == s.coordinates

----
\* The pointer views.  A view holds the indices of its atoms and its own
\* active coordinate set index; all views of the model point to ag.

\* AtomGroup.__getitem__(index) for an integer: an Atom view.
getitem(s, index) ==
    [kind |-> "Atom",
     indices |-> <<IF index < 0 THEN s.n_atoms + index ELSE index>>,
     acsi |-> s.acsi]

\* A variant of viewSetACSIndex that stores a negative index as it is.
viewSetACSIndexAsGiven(s, v, index) ==
    IF ~s.coordinates.some THEN [view |-> v, err |-> "AttributeError"]
    ELSE IF s.n_csets <= index \/ s.n_csets < -index
    THEN [view |-> v, err |-> "IndexError"]
    ELSE [view |-> [v EXCEPT !.acsi = index], err |-> ""]

\* AtomPointer.setACSIndex(index): the view's new index, or the exception.
viewSetACSIndex(s, v, index) ==
    IF ~s.coordinates.some THEN [view |-> v, err |-> "AttributeError"]
    ELSE IF s.n_csets <= index \/ s.n_csets < -index
    THEN [view |-> v, err |-> "IndexError"]
    ELSE [view |-> [v EXCEPT !.acsi = IF index < 0 THEN index + s.n_csets
                                      ELSE index],
          err |-> ""]

----
\* numpy arrays as objects.  An array is a record [some, base, cset, atom,
\* ndim, val]: base is "own" for an array that owns its memory, and else the
\* key of the array of the Store whose memory it shares ("coordinates" or a
\* data key); cset and atom are the integers it was indexed with (NoneInt
\* for an axis taken whole); ndim counts its axes over coordinate sets and
\* atoms; val holds its values.  some is FALSE for None.
NoArray ==
    [some |-> FALSE, base |-> "own", cset |-> NoneInt, atom |-> NoneInt,
     ndim |-> 0, val |-> <<>>]

\* self._coordinates and self._data[key]: the arrays the Store holds.
StoreArray(s, base) ==
    IF base = "coordinates"
    THEN [some |-> s.coordinates.some, base |-> base, cset |-> NoneInt,
          atom |-> NoneInt, ndim |-> 2, val |-> s.coordinates.val]
    ELSE [some |-> s.data[base].some, base |-> base, cset |-> NoneInt,
          atom |-> NoneInt, ndim |-> 1, val |-> s.data[base].val]

\* a[k] for an integer k, 0 <= k < len(a): basic indexing, the result shares
\* the memory of a.
npItem(a, k) ==
    IF a.ndim = 2
    THEN [a EXCEPT !.cset = k, !.ndim = 1, !.val = a.val[k + 1]]
    ELSE [a EXCEPT !.atom = k, !.ndim = 0, !.val = a.val[k + 1]]

\* a[:, k] for an integer k: basic indexing of the second axis.
npColumn(a, k) ==
    [a EXCEPT !.atom = k, !.ndim = 1,
              !.val = [j \in 1..Len(a.val) |-> a.val[j][k + 1]]]

\* A variant of npCopy that returns the array itself.
npNoCopy(a) == a

\* a.copy(): a new array with the values of a.
npCopy(a) == [a EXCEPT !.base = "own", !.cset = NoneInt, !.atom = NoneInt]

\* a[which] for a list or an array of integers: advanced indexing, the
\* result is a new array.
npTake(a, which) ==
    [a EXCEPT !.base = "own", !.cset = NoneInt, !.atom = NoneInt,
              !.val = Take(a.val, which)]

\* a[:, which] for an array of integers.
npTakeColumns(a, which) ==
    [a EXCEPT !.base = "own", !.cset = NoneInt, !.atom = NoneInt,
              !.val = [j \in 1..Len(a.val) |-> Take(a.val[j], which)]]

\* The element (j, r), 1-based, of a Store array belongs to array a.
Designates(a, j, r) ==
    /\ a.cset \in {NoneInt, j - 1}
    /\ a.atom \in {NoneInt, r - 1}

\* a[...] = x on an array a: the values of a afterwards.
Fill(a, x) ==
    IF a.ndim = 0 THEN x
    ELSE IF a.ndim = 1 THEN [r \in 1..Len(a.val) |-> x]
    ELSE [j \in 1..Len(a.val) |-> [r \in 1..Len(a.val[j]) |-> x]]

\* a[...] = x on an array a: the Store afterwards, changed where a shares
\* the memory of one of its arrays.
writeInto(s, a, x) ==
    IF a.base = "own" THEN s
    ELSE IF a.base = "coordinates"
    THEN [s EXCEPT !.coordinates.val =
              [j \in 1..Len(@) |->
                  [r \in 1..Len(@[j]) |->
                      IF Designates(a, j, r) THEN x ELSE @[j][r]]]]
    ELSE [s EXCEPT !.data[a.base].val =
              [r \in 1..Len(@) |->
                  IF Designates(a, 1, r) THEN x ELSE @[r]]]

\* The values of array a once the arrays of the Store have been written in
\* place and hold the values of s: those of the memory a shares.
readThrough(a, s) ==
    IF a.base = "own" \/ ~a.some THEN a
    ELSE LET whole == StoreArray(s, a.base)
             sets == IF a.cset = NoneInt THEN whole
                     ELSE npItem(whole, a.cset)
         IN  IF a.atom = NoneInt THEN [a EXCEPT !.val = sets.val]
             ELSE IF a.base = "coordinates" /\ a.cset = NoneInt
             THEN [a EXCEPT !.val = npColumn(sets, a.atom).val]
             ELSE [a EXCEPT !.val = npItem(sets, a.atom).val]

----
\* The public get methods, by the arrays they return.

\* AtomGroupMeta.__init__.getData, the get method of a built-in field, and
\* AtomGroup.getData(label): None or array.copy().
getDataArray(s, key) ==
    IF ~s.data[key].some THEN NoArray
    ELSE npCopy(StoreArray(s, key))

\* AtomGroup.getCoords(): None or self._coordinates[self._acsi].copy().
getCoordsArray(s) ==
    IF ~s.coordinates.some THEN NoArray
    ELSE npCopy(npItem(StoreArray(s, "coordinates"), s.acsi))

\* The indices argument of getCoordsets: None (kind "None", val <<>>), an
\* integer k (kind "int", val <<k>>) or a list l (kind "list", val l).
Indices(kind, val) == [kind |-> kind, val |-> val]

\* AtomGroup.getCoordsets(indices) for indices in range.
getCoordsetsArray(s, indices) ==
    IF ~s.coordinates.some THEN NoArray
    ELSE IF indices.kind = "None" THEN npCopy(StoreArray(s, "coordinates"))
    ELSE IF indices.kind = "int"
    THEN npCopy(npItem(StoreArray(s, "coordinates"), indices.val[1]))
    ELSE npTake(StoreArray(s, "coordinates"), indices.val)

\* Atom.getCoords(): None or _coordinates[self._acsi, self._index].copy().
atomGetCoordsArray(s, v) ==
    IF ~s.coordinates.some THEN NoArray
    ELSE npCopy(npItem(npItem(StoreArray(s, "coordinates"), v.acsi),
                       v.indices[1]))

\* Atom.getCoordsets(): None or _coordinates[:, self._index].copy().
atomGetCoordsetsArray(s, v) ==
    IF ~s.coordinates.some THEN NoArray
    ELSE npCopy(npColumn(StoreArray(s, "coordinates"), v.indices[1]))

\* AtomSubsetMeta.__init__.getData: None or array[self._indices].
subsetGetDataArray(s, v, var) ==
    IF ~s.data[var].some THEN NoArray
    ELSE npTake(StoreArray(s, var), v.indices)

\* AtomSubset.getCoords(): None or _coordinates[self._acsi, self._indices].
subsetGetCoordsArray(s, v) ==
    IF ~s.coordinates.some THEN NoArray
    ELSE npTake(npItem(StoreArray(s, "coordinates"), v.acsi), v.indices)

\* AtomSubset.getCoordsets(): None or _coordinates[:, self._indices].
subsetGetCoordsetsArray(s, v) ==
    IF ~s.coordinates.some THEN NoArray
    ELSE npTakeColumns(StoreArray(s, "coordinates"), v.indices)

\* Atom.getIndices() and AtomSubset.getIndices(): a new array of the
\* indices of the view.
getIndicesArray(v) ==
    [some |-> TRUE, base |-> "own", cset |-> NoneInt, atom |-> NoneInt,
     ndim |-> 1, val |-> v.indices]

\* Atom.setCoords(coords): the active coordinate set of the view is
\* written in place.
atomSetCoords(s, v, coords, t) ==
    IF ~s.coordinates.some THEN Raise(s, "TypeError")
    ELSE IF v.acsi >= Len(s.coordinates.val) THEN Raise(s, "IndexError")
    ELSE setTimeStamp(
             [s EXCEPT !.coordinates.val[v.acsi + 1][v.indices[1] + 1] =
                           coords],
             v.acsi, t)

\* AtomSubset.setCoords(coords): coords is assigned to the atoms of the view
\* in the active coordinate set of the view, in place.
subsetSetCoords(s, v, coords, t) ==
    IF ~s.coordinates.some THEN Raise(s, "TypeError")
    ELSE IF v.acsi >= Len(s.coordinates.val) THEN Raise(s, "IndexError")
    ELSE setTimeStamp(
             [s EXCEPT !.coordinates.val[v.acsi + 1] =
                  [r \in 1..Len(@) |->
                      IF r - 1 \in {v.indices[j] : j \in 1..Len(v.indices)}
                      THEN coords ELSE @[r]]],
             v.acsi, t)

\* array[self._index] and array[self._indices] of the get methods of Atom
\* and AtomSubset, for an optional array of the Store: None, the values at
\* the indices of the view, or the exception of the indexing.
viewGet(v, array) ==
    IF ~array.some THEN [err |-> "", none |-> TRUE, val |-> <<>>]
    ELSE IF \E j \in 1..Len(v.indices) : v.indices[j] >= Len(array.val)
    THEN [err |-> "IndexError", none |-> TRUE, val |-> <<>>]
    ELSE [err |-> "", none |-> FALSE, val |-> Take(array.val, v.indices)]

\* Atom.getCoords() and AtomSubset.getCoords(): the coordinates of the
\* atoms of the view in the active coordinate set of the view, for a view
\* whose active coordinate set index is an integer.
viewGetCoords(s, v) ==
    IF ~s.coordinates.some THEN viewGet(v, NoneArr)
    ELSE IF v.acsi >= Len(s.coordinates.val)
    THEN [err |-> "IndexError", none |-> TRUE, val |-> <<>>]
    ELSE viewGet(v, Some(s.coordinates.val[v.acsi + 1]))

\* slice.indices(n) and numpy.arange for slice(start, stop) with
\* 0 <= start, 0 <= stop: the indices from start up to stop, both clipped
\* to n.
SliceIndices(n, start, stop) ==
    LET a == Min(start, n)
        b == Min(stop, n)
    IN  [j \in 1..(IF b > a THEN b - a ELSE 0) |-> a + j - 1]

\* AtomGroup.__getitem__(slice(start, stop)): a Selection view.
getslice(s, start, stop) ==
    [kind |-> "Selection",
     indices |-> SliceIndices(s.n_atoms, start, stop),
     acsi |-> s.acsi]

----
\* The serial index.

\* The elements of a sequence.
Elements(seq) == {seq[j] : j \in 1..Len(seq)}

\* AtomGroup._buildSN2I(): the array that holds at position sn the index of
\* the atom whose serial number is sn, and -1 where there is none.
\* self._serials succeeds for a name among __slots__, which
\* object.__getattribute__ finds; for another name Atomic.__getattribute__
\* raises AttributeError unless the part of the name before its first "_"
\* is a selection keyword, and that part of "_serials" is the empty string.
buildSN2I(s) ==
    IF "_serials" \notin
           {"_acsi", "_title", "_n_atoms", "_coordinates", "_n_csets",
            "_cslabels", "_hv", "_sn2i", "_trajectory", "_frameindex",
            "_tcsi", "_timestamps", "_data"}
    THEN Raise(s, "AttributeError")
    ELSE LET serials == s.data["serials"]
             min == CHOOSE x \in Elements(serials.val) :
                        \A y \in Elements(serials.val) : x <= y
             max == CHOOSE x \in Elements(serials.val) :
                        \A y \in Elements(serials.val) : x >= y
         IN  IF ~serials.some THEN Raise(s, "AttributeError")
             ELSE IF Cardinality(Elements(serials.val)) # s.n_atoms
             THEN Raise(s, "ValueError")
             ELSE IF min < 0
             THEN Raise(s, "ValueError")
             ELSE Ok([s EXCEPT !.sn2i =
                      Some([sn1 \in 1..(max + 1) |->
                            IF sn1 - 1 \in Elements(serials.val)
                            THEN (CHOOSE i \in 1..Len(serials.val) :
                                      serials.val[i] = sn1 - 1) - 1
                            ELSE -1])])

\* AtomGroup._getSN2I()
getSN2I(s) == IF ~s.sn2i.some THEN buildSN2I(s) ELSE Ok(s)

\* AtomGroup.getBySerial(serial) for an integer: index is the index of the
\* Atom returned, NoneInt when None is returned.
getBySerial(s, serial) ==
    IF serial < 0 THEN [ag |-> s, err |-> "ValueError", index |-> NoneInt]
    ELSE LET r == getSN2I(s)
         IN  IF r.err # ""
             THEN [ag |-> r.ag, err |-> r.err, index |-> NoneInt]
             ELSE IF /\ serial < Len(r.ag.sn2i.val)
                     /\ r.ag.sn2i.val[serial + 1] # -1
             THEN [ag |-> r.ag, err |-> "",
                   index |-> r.ag.sn2i.val[serial + 1]]
             ELSE [ag |-> r.ag, err |-> "", index |-> NoneInt]

\* AtomMeta.__init__.setData: the set method of a field of an Atom view.
\* The test before the reset of the cache is "if None:".
atomSetData(s, v, var, value) ==
    IF ~s.data[var].some THEN Raise(s, "AttributeError")
    ELSE IF v.indices[1] >= Len(s.data[var].val) THEN Raise(s, "IndexError")
    ELSE Ok([s EXCEPT !.data[var].val[v.indices[1] + 1] = value])

\* AtomSubsetMeta.__init__.setData: the set method of a field of a subset
\* view, called with one value for all atoms of the view.
subsetSetData(s, v, var, value) ==
    IF ~s.data[var].some THEN Raise(s, "AttributeError")
    ELSE IF \E j \in 1..Len(v.indices) : v.indices[j] >= Len(s.data[var].val)
    THEN Raise(s, "IndexError")
    ELSE Ok(ResetNone(
             [s EXCEPT !.data[var].val =
                  [r \in 1..Len(@) |->
                      IF r - 1 \in Elements(v.indices) THEN value ELSE @[r]]],
             var))

----
\* The merge of two stores.

\* A variant of MergedCount: the smaller of the two numbers.
SmallerCount(ka, kb) == Min(ka, kb)

\* AtomGroup.__add__, the number of coordinate sets merged: that of the
\* operands, and 1 when their numbers differ.
MergedCount(ka, kb) == IF ka # kb THEN 1 ELSE ka

\* AtomGroup.__add__(other) for an AtomGroup.  same tells that other is
\* self.  new is the store returned, self and other are the operands as the
\* call leaves them; when the call raises there is no new store.
add(s, o, same, t) ==
    LET n_coordsets == MergedCount(s.n_csets, o.n_csets)
        NoNew(e) == [new |-> NewAtomGroup, self |-> s, other |-> o, err |-> e]
    IN  IF same THEN NoNew("ValueError")
        ELSE IF ~s.coordinates.some \/ ~o.coordinates.some
        THEN NoNew("TypeError")
        ELSE IF \/ Len(s.coordinates.val) < n_coordsets
                \/ Len(o.coordinates.val) < n_coordsets
        THEN NoNew("IndexError")
        ELSE LET stack == [j \in 1..n_coordsets |->
                              s.coordinates.val[j] \o o.coordinates.val[j]]
                 r == setCoords(NewAtomGroup, [ndim |-> 3, stack |-> stack],
                                NoLabel, t)
                 merged == [r.ag EXCEPT !.data =
                               [k \in DataKeys |->
                                   IF /\ k \in Fields
                                      /\ s.data[k].some
                                      /\ o.data[k].some
                                   THEN Some(s.data[k].val \o o.data[k].val)
                                   ELSE NoneArr]]
             IN  IF r.err # "" THEN NoNew(r.err)
                 ELSE [new |-> merged, self |-> s, other |-> o, err |-> ""]

----
\* AtomGroup.copy(which) for which None, an integer or a list of integers.
\* new is the store returned; shares holds the keys of the arrays of new
\* that share memory with an array of self.  When the call raises there is
\* no new store.
copy(s, which, t) ==
    LET n == s.n_atoms
        indices == [j \in 1..Len(which.val) |->
                       IF which.val[j] < 0 THEN which.val[j] + n
                       ELSE which.val[j]]
        all == which.kind = "None"
        coords == IF all THEN npCopy(StoreArray(s, "coordinates"))
                  ELSE npTakeColumns(StoreArray(s, "coordinates"), indices)
        array(k) == IF all THEN npCopy(StoreArray(s, k))
                    ELSE npTake(StoreArray(s, k), indices)
        r == setCoords(NewAtomGroup, [ndim |-> 3, stack |-> coords.val],
                       NoLabel, t)
        NoNew(e) == [new |-> NewAtomGroup, err |-> e, shares |-> {}]
    IN  IF ~s.coordinates.some
        THEN NoNew(IF all THEN "AttributeError" ELSE "TypeError")
        ELSE IF \E j \in 1..Len(which.val) :
                    which.val[j] >= n \/ which.val[j] < -n
        THEN NoNew("IndexError")
        ELSE IF r.err # "" THEN NoNew(r.err)
        ELSE [new |-> [r.ag EXCEPT !.data =
                          [k \in DataKeys |->
                              IF s.data[k].some THEN Some(array(k).val)
                              ELSE NoneArr]],
              err |-> "",
              shares |-> ({coords.base}
                          \cup {array(k).base :
                                   k \in {d \in DataKeys : s.data[d].some}})
                         \ {"own"}]

----
\* The subset views and their set operations.

\* The integers of S in ascending order.
SortedSeq(S) ==
    CHOOSE seq \in [1..Cardinality(S) -> S] :
        \A i \in 1..Cardinality(S), j \in 1..Cardinality(S) :
            i < j => seq[i] < seq[j]

\* numpy.unique(array) for an array of integers.
npUnique(seq) == SortedSeq(Elements(seq))

\* AtomSubset.__init__(atomgroup, indices, acsi, unique=...) as called by
\* the constructors of Selection, Chain and Residue.
AtomSubset(kind, indices, acsi, unique) ==
    [kind |-> kind,
     indices |-> IF unique THEN indices ELSE npUnique(indices),
     acsi |-> acsi]

\* AtomGroup.__getitem__(chid) for a string: the Chain the hierarchical
\* view holds for this chain identifier, and none when it holds no such
\* chain.  The store is the one getHierView leaves.
hvChain(s, chid) ==
    LET get(r, found) ==
            [ag |-> r.ag, err |-> r.err, none |-> found = <<>>,
             view |-> IF found = <<>>
                      THEN AtomSubset("Chain", <<>>, s.acsi, TRUE)
                      ELSE found[1]]
        chain(r) ==
            get(r, IF r.err # "" THEN <<>>
                   ELSE SelectSeq(r.ag.hv.val, LAMBDA ch : ch.chid = chid))
    IN  chain(getHierView(s))

\* AtomGroup.__getitem__((chid, resnum)): the Residue the chain holds under
\* the key (resnum, ''), and none when there is no such chain or residue.
hvResidue(s, chid, resnum) ==
    LET get(r, found) ==
            [ag |-> r.ag, err |-> r.err, none |-> found = <<>>,
             view |-> IF found = <<>>
                      THEN AtomSubset("Residue", <<>>, s.acsi, TRUE)
                      ELSE found[1]]
        residue(r) ==
            get(r, IF r.none THEN <<>>
                   ELSE SelectSeq(r.view.dict,
                                  LAMBDA res : res.res = <<resnum, 0>>))
    IN  residue(hvChain(s, chid))

\* The result of a set operation: a view, None (none is TRUE) or an
\* exception.
Returns(v) == [view |-> v, none |-> FALSE, err |-> ""]
Raises(v, e) == [view |-> v, none |-> TRUE, err |-> e]

\* A variant of OperandsACSI: the active index of the first operand.
FirstACSI(a, b) == a.acsi

\* AtomSubset.__or__ and __and__, acsi: the active index of the operands,
\* and 0 when their active indices differ.
OperandsACSI(a, b) == IF a.acsi # b.acsi THEN 0 ELSE a.acsi

\* AtomSubset.__or__(other).  foreign tells that other points to another
\* AtomGroup, same that other is self.
or(a, b, foreign, same) ==
    IF b.kind = "Atom" THEN Raises(a, "TypeError")
    ELSE IF foreign THEN Raises(a, "ValueError")
    ELSE IF same THEN Returns(a)
    ELSE Returns(AtomSubset("Selection", npUnique(a.indices \o b.indices),
                            OperandsACSI(a, b), FALSE))

\* AtomSubset.__and__(other).  numpy.unique is called with a Python set:
\* a numpy that sorts the items of an argument without flatten() returns
\* the sorted indices (sorts is TRUE); a numpy that converts the argument
\* with asanyarray returns an object array that holds the set, which
\* AtomSubset.__init__ cannot convert with astype(int).
and(a, b, foreign, same, sorts) ==
    LET indices == Elements(a.indices) \cap Elements(b.indices)
    IN  IF b.kind = "Atom" THEN Raises(a, "TypeError")
        ELSE IF foreign THEN Raises(a, "ValueError")
        ELSE IF same THEN Returns(a)
        ELSE IF indices = {} THEN [view |-> a, none |-> TRUE, err |-> ""]
        ELSE IF ~sorts THEN Raises(a, "TypeError")
        ELSE Returns(AtomSubset("Selection", SortedSeq(indices),
                                OperandsACSI(a, b), FALSE))

\* list.pop(i): the list without its item at index i.
ListPopAt(list, i) ==
    [j \in 1..(Len(list) - 1) |-> IF j - 1 < i THEN list[j] ELSE list[j + 1]]

\* A variant of PopAll that takes the indices from the front.
RECURSIVE PopAllFromFront(_, _)
PopAllFromFront(arange, indices) ==
    IF indices = <<>> THEN [list |-> arange, err |-> ""]
    ELSE LET i == Head(indices)
         IN  IF i >= Len(arange) \/ i < -Len(arange)
             THEN [list |-> arange, err |-> "IndexError"]
             ELSE PopAllFromFront(
                      ListPopAt(arange, IF i < 0 THEN i + Len(arange) ELSE i),
                      Tail(indices))

\* while indices: arange.pop(indices.pop()): the indices are taken from the
\* end and the item at each is removed from arange.
RECURSIVE PopAll(_, _)
PopAll(arange, indices) ==
    IF indices = <<>> THEN [list |-> arange, err |-> ""]
    ELSE LET i == indices[Len(indices)]
         IN  IF i >= Len(arange) \/ i < -Len(arange)
             THEN [list |-> arange, err |-> "IndexError"]
             ELSE PopAll(
                      ListPopAt(arange, IF i < 0 THEN i + Len(arange) ELSE i),
                      SubSeq(indices, 1, Len(indices) - 1))

\* AtomSubset.__invert__()
invert(s, a) ==
    LET r == PopAll([j \in 1..numAtoms(s) |-> j - 1], a.indices)
    IN  IF r.err # "" THEN Raises(a, r.err)
        ELSE Returns(AtomSubset("Selection", r.list, a.acsi, FALSE))

----
\* The mapped views.

\* AtomMap.__init__(atomgroup, indices, mapping, unmapped, title, acsi)
AtomMap(indices, mapping, unmapped, acsi) ==
    [kind |-> "AtomMap", indices |-> indices, acsi |-> acsi,
     mapping |-> mapping, unmapped |-> unmapped,
     len |-> Len(unmapped) + Len(mapping)]

\* len(atoms) for a pointer: Atom.__len__ is 1, AtomSubset.__len__ the
\* number of indices, Chain.__len__ the size of _dict, AtomMap.__len__ _len.
len(v) ==
    IF v.kind = "Chain" THEN Len(v.dict)
    ELSE IF v.kind = "AtomMap" THEN v.len
    ELSE Len(v.indices)

\* AtomPointer.__add__(other).  foreign tells that other points to another
\* AtomGroup.
pointerAdd(a, b, foreign) ==
    LET length == len(a)
        arange(lo, hi) == [j \in 1..(hi - lo) |-> lo + j - 1]
        shifted(seq) == [j \in 1..Len(seq) |-> seq[j] + length]
    IN  IF foreign THEN Raises(a, "ValueError")
        ELSE Returns(AtomMap(
                 a.indices \o b.indices,
                 (IF a.kind = "AtomMap" THEN a.mapping
                  ELSE arange(0, length))
                 \o (IF b.kind = "AtomMap" THEN shifted(b.mapping)
                     ELSE arange(length, length + len(b))),
                 (IF a.kind = "AtomMap" THEN a.unmapped ELSE <<>>)
                 \o (IF b.kind = "AtomMap" THEN shifted(b.unmapped)
                     ELSE <<>>),
                 a.acsi))

\* AtomMapMeta.__init__.getData for the optional array of the Store:
\* data = array[self._indices]; result = zeros(_len); result[mapping] = data.
\* The assignment needs as many items as slots, or one item; of the items
\* assigned to one slot the last stays.
mapGet(v, array) ==
    LET data == Take(array.val, v.indices)
        slots == v.mapping
        last(slot) == CHOOSE j \in 1..Len(slots) :
                          /\ slots[j] = slot
                          /\ \A k \in (j + 1)..Len(slots) : slots[k] # slot
    IN  IF ~array.some THEN [err |-> "", none |-> TRUE, val |-> <<>>]
        ELSE IF \E j \in 1..Len(v.indices) : v.indices[j] >= Len(array.val)
        THEN [err |-> "IndexError", none |-> TRUE, val |-> <<>>]
        ELSE IF \E j \in 1..Len(slots) : slots[j] >= v.len
        THEN [err |-> "IndexError", none |-> TRUE, val |-> <<>>]
        ELSE IF Len(data) \notin {Len(slots), 1}
        THEN [err |-> "ValueError", none |-> TRUE, val |-> <<>>]
        ELSE [err |-> "", none |-> FALSE,
              val |-> [slot1 \in 1..v.len |->
                  IF \E j \in 1..Len(slots) : slots[j] = slot1 - 1
                  THEN data[IF Len(data) = 1 THEN 1 ELSE last(slot1 - 1)]
                  ELSE 0]]

\* AtomMap.getCoords()
mapGetCoords(s, v) ==
    mapGet(v, IF s.coordinates.some THEN Some(s.coordinates.val[v.acsi + 1])
              ELSE NoneArr)

\* AtomMap.setCoords(coords), called with one value for all atoms:
\* self._ag._coordinates[self._acsi, self._indices] = coords
mapSetCoords(s, v, coords) ==
    IF ~s.coordinates.some THEN Raise(s, "TypeError")
    ELSE IF v.acsi >= Len(s.coordinates.val) THEN Raise(s, "IndexError")
    ELSE IF \E j \in 1..Len(v.indices) : v.indices[j] >= s.n_atoms
    THEN Raise(s, "IndexError")
    ELSE Ok([s EXCEPT !.coordinates.val[v.acsi + 1] =
                 [r \in 1..Len(@) |->
                     IF r - 1 \in Elements(v.indices) THEN coords ELSE @[r]]])

----
\* The arguments the operations are called with.  Arrays hold at least one
\* atom and at least one coordinate set.

\* The coordinate sets for n atoms the operations are called with: all
\* rows equal, and rows that alternate.
CSets(n) == {[r \in 1..n |-> 0], [r \in 1..n |-> r % 2]}

\* The (n,3) arrays, for the number of atoms of the trajectory and one less.
Arrays2 == UNION {{Array2(c) : c \in CSets(n)} : n \in {MaxAtoms - 1, MaxAtoms}}

\* The (k,n,3) arrays, 1 <= k <= MaxNew.
Arrays3 ==
    UNION {UNION {{[ndim |-> 3, stack |-> st] : st \in [1..k -> CSets(n)]}
                  : k \in 1..MaxNew} : n \in {MaxAtoms - 1, MaxAtoms}}

Arrays == Arrays2 \cup Arrays3

\* The coordinate set indices, in range and out of range.
CsetIndices == (-(MaxCsets + 1))..MaxCsets

----
\* The operations.  op records the last call and the exception it raised.
Call(name, r) ==
    /\ ag' = r.ag
    /\ op' = [name |-> name, err |-> r.err]

Init ==
    /\ ag = NewAtomGroup
    /\ tnext = 0
    /\ views = <<>>
    /\ now = 0
    /\ op = [name |-> "AtomGroup", err |-> ""]
    /\ ret = NoArray
    /\ newmol = NewAtomGroup

SetCoords(arr) ==
    /\ Call("setCoords", setCoords(ag, arr, NoLabel, now))
    /\ UNCHANGED <<tnext, views, now, ret, newmol>>

AddCoordset(arr) ==
    /\ ag.n_csets + Len(arr.stack) <= MaxCsets
    /\ Call("addCoordset", addCoordset(ag, arr, NoLabel, now))
    /\ UNCHANGED <<tnext, views, now, ret, newmol>>

DelCoordset(index) ==
    /\ Call("delCoordset", delCoordset(ag, index))
    /\ UNCHANGED <<tnext, views, now, ret, newmol>>

SetACSIndex(index) ==
    /\ Call("setACSIndex", setACSIndex(ag, index))
    /\ UNCHANGED <<tnext, views, now, ret, newmol>>

SetTrajectory ==
    /\ tnext < NFrames
    /\ ag.n_csets < MaxCsets
    /\ ag.cslabels.some => Len(ag.cslabels.val) < MaxLabels
    /\ LET r == setTrajectory(ag, tnext, now)
       IN  Call("setTrajectory", r) /\ tnext' = r.tnext
    /\ UNCHANGED <<views, now, ret, newmol>>

UnsetTrajectory ==
    /\ Call("setTrajectory(None)", unsetTrajectory(ag))
    /\ UNCHANGED <<tnext, views, now, ret, newmol>>

NextFrame(step) ==
    /\ tnext + (step - 1) < NFrames
    /\ LET r == nextFrame(ag, tnext, step, now)
       IN  Call("nextFrame", r) /\ tnext' = r.tnext
    /\ UNCHANGED <<views, now, ret, newmol>>

GotoFrame(n) ==
    /\ LET r == gotoFrame(ag, tnext, n, now)
       IN  Call("gotoFrame", r) /\ tnext' = r.tnext
    /\ UNCHANGED <<views, now, ret, newmol>>

\* loadAtoms(saveAtoms(ag)): the model goes on with the loaded AtomGroup,
\* which no view points to; when loadAtoms raises it stays with ag.
SaveLoad ==
    /\ LET r == loadAtoms(saveAtoms(ag))
       IN  Call("loadAtoms", IF r.err = "" THEN r ELSE Raise(ag, r.err))
    /\ views' = IF op'.err = "" THEN <<>> ELSE views
    /\ UNCHANGED <<tnext, now, ret, newmol>>

Next ==
    \/ \E arr \in Arrays : SetCoords(arr)
    \/ \E arr \in Arrays : AddCoordset(arr)
    \/ \E index \in CsetIndices : DelCoordset(index)
    \/ \E index \in CsetIndices : SetACSIndex(index)
    \/ SetTrajectory
    \/ UnsetTrajectory
    \/ \E step \in 1..2 : NextFrame(step)
    \/ \E n \in 0..(NFrames - 1) : GotoFrame(n)

Spec == Init /\ [][Next]_vars

\* The same operations and, at any point, a save and load of the store.
NextLoad ==
    \/ Next
    \/ SaveLoad

SpecLoad == Init /\ [][NextLoad]_vars

----
\* The store with its data arrays: the set methods of the fields, user data,
\* coordinates, the hierarchical view, and save/load.

\* The data arrays the set methods are called with: for n atoms, all
\* values equal, and values that alternate.
DataArgs ==
    UNION {{DataArg(kind, 1, val) : kind \in {"list", "ndarray", "other"},
                                    val \in CSets(n)}
           \cup {DataArg("ndarray", 2, val) : val \in CSets(n)}
           : n \in 1..MaxAtoms}

\* The fields whose set methods are called.
SetFields == {"names", "chids"}

SetField(var, array) ==
    /\ Call("setField", setField(ag, var, array))
    /\ UNCHANGED <<tnext, views, now, ret, newmol>>

SetData(label, data) ==
    /\ Call("setData", setData(ag, label, data))
    /\ UNCHANGED <<tnext, views, now, ret, newmol>>

DelData(label) ==
    /\ Call("delData", delData(ag, label))
    /\ UNCHANGED <<tnext, views, now, ret, newmol>>

GetHierView ==
    /\ Call("getHierView", getHierView(ag))
    /\ UNCHANGED <<tnext, views, now, ret, newmol>>

NextData ==
    \/ \E var \in SetFields, array \in DataArgs : SetField(var, array)
    \/ \E label \in UserLabels, data \in DataArgs : SetData(label, data)
    \/ \E label \in UserLabels : DelData(label)
    \/ \E arr \in Arrays2 : SetCoords(arr)
    \/ GetHierView
    \/ SaveLoad

SpecData == Init /\ [][NextData]_vars

----
\* The store with views: each view has its own active coordinate set index.

\* The atom index views are made with: the first atom.
AtomIndices == {0}

\* The coordinate arrays of this specification: 1..MaxNew sets for MaxAtoms
\* atoms, all rows equal.
ViewArrays ==
    {[ndim |-> 3, stack |-> Repeat(Repeat(0, MaxAtoms), k)] : k \in 1..MaxNew}

GetItem(index) ==
    /\ Len(views) < MaxViews
    /\ ag.n_atoms > 0
    /\ views' = Append(views, getitem(ag, index))
    /\ op' = [name |-> "getitem", err |-> ""]
    /\ UNCHANGED <<ag, tnext, now, ret, newmol>>

ViewSetACSIndex(v, index) ==
    /\ v \in DOMAIN views
    /\ LET r == viewSetACSIndex(ag, views[v], index)
       IN  /\ views' = [views EXCEPT ![v] = r.view]
           /\ op' = [name |-> "view.setACSIndex", err |-> r.err]
    /\ UNCHANGED <<ag, tnext, now, ret, newmol>>

NextViews ==
    \/ \E arr \in ViewArrays : SetCoords(arr)
    \/ \E arr \in ViewArrays : AddCoordset(arr)
    \/ \E index \in CsetIndices : DelCoordset(index)
    \/ \E index \in CsetIndices : SetACSIndex(index)
    \/ \E index \in AtomIndices : GetItem(index)
    \/ \E v \in 1..MaxViews, index \in CsetIndices : ViewSetACSIndex(v, index)

SpecViews == Init /\ [][NextViews]_vars

----
\* The store with a trajectory whose source has LongFrames frames, so that a
\* read that skips frames can be followed by further reads.

LongSetTrajectory ==
    /\ tnext < LongFrames
    /\ ag.n_csets < MaxCsets
    /\ ag.cslabels.some => Len(ag.cslabels.val) < MaxLabels
    /\ LET r == setTrajectory(ag, tnext, now)
       IN  Call("setTrajectory", r) /\ tnext' = r.tnext
    /\ UNCHANGED <<views, now, ret, newmol>>

LongNextFrame(step) ==
    /\ tnext + (step - 1) < LongFrames
    /\ LET r == nextFrame(ag, tnext, step, now)
       IN  Call("nextFrame", r) /\ tnext' = r.tnext
    /\ UNCHANGED <<views, now, ret, newmol>>

LongGotoFrame(n) ==
    /\ LET r == gotoFrame(ag, tnext, n, now)
       IN  Call("gotoFrame", r) /\ tnext' = r.tnext
    /\ UNCHANGED <<views, now, ret, newmol>>

NextTraj ==
    \/ \E k \in 1..2 :
          SetCoords([ndim |-> 3,
                     stack |-> Repeat([r \in 1..TrajNumAtoms |-> r % 2], k)])
    \/ \E index \in {0, 1} : SetACSIndex(index)
    \/ LongSetTrajectory
    \/ UnsetTrajectory
    \/ \E step \in 1..2 : LongNextFrame(step)
    \/ \E n \in 0..(LongFrames - 1) : LongGotoFrame(n)

SpecTraj == Init /\ [][NextTraj]_vars

----
\* The store, its views and the arrays the get methods return.  ret is the
\* array the last get method has returned; the caller writes into it, and
\* the Store is written while the caller holds it.

\* The coordinate arrays of this specification: two sets for MaxAtoms atoms
\* with all rows equal, and one set whose rows alternate.
GetArrays ==
    {[ndim |-> 3, stack |-> Repeat(Repeat(0, MaxAtoms), 2)],
     Array2([r \in 1..MaxAtoms |-> r % 2])}

\* The data array of this specification; the value written into arrays
\* is 1.
GetDataArgs == {DataArg("ndarray", 1, [r \in 1..MaxAtoms |-> 0])}

\* setCoords while the caller holds ret: line 1002 assigns into the array
\* of the Store, the other assignments bind a new array.
WriteCoords(arr) ==
    /\ Call("setCoords", setCoords(ag, arr, NoLabel, now))
    /\ ret' = IF ag.coordinates.some /\ Len(arr.stack) = 1
              THEN readThrough(ret, ag') ELSE ret
    /\ UNCHANGED <<tnext, views, now, newmol>>

AtomSetCoords(v, coords) ==
    /\ v \in DOMAIN views
    /\ views[v].kind = "Atom"
    /\ views[v].acsi # NoneInt
    /\ Call("atom.setCoords", atomSetCoords(ag, views[v], coords, now))
    /\ ret' = readThrough(ret, ag')
    /\ UNCHANGED <<tnext, views, now, newmol>>

\* A view of this kind has been made.
HasView(kind) == \E v \in DOMAIN views : views[v].kind = kind

GetSlice(start, stop) ==
    /\ Len(views) < MaxViews
    /\ ag.n_atoms > 0
    /\ views' = Append(views, getslice(ag, start, stop))
    /\ op' = [name |-> "getitem", err |-> ""]
    /\ UNCHANGED <<ag, tnext, now, ret, newmol>>

Return(name, a) ==
    /\ ret' = a
    /\ op' = [name |-> name, err |-> ""]
    /\ UNCHANGED <<ag, tnext, views, now, newmol>>

GetStore ==
    \/ \E key \in {"names", "flag"} : Return("getData", getDataArray(ag, key))
    \/ Return("getCoords", getCoordsArray(ag))
    \/ \E indices \in {Indices("None", <<>>), Indices("int", <<0>>),
                       Indices("list", <<1, 0>>)} :
           /\ ag.n_csets = 2
           /\ Return("getCoordsets", getCoordsetsArray(ag, indices))

GetView(v) ==
    /\ v \in DOMAIN views
    /\ views[v].acsi # NoneInt
    /\ \/ Return("view.getIndices", getIndicesArray(views[v]))
       \/ /\ views[v].kind = "Atom"
          /\ \/ Return("atom.getCoords", atomGetCoordsArray(ag, views[v]))
             \/ Return("atom.getCoordsets",
                       atomGetCoordsetsArray(ag, views[v]))
       \/ /\ views[v].kind = "Selection"
          /\ \/ Return("subset.getCoords",
                       subsetGetCoordsArray(ag, views[v]))
             \/ Return("subset.getCoordsets",
                       subsetGetCoordsetsArray(ag, views[v]))
             \/ Return("subset.getData",
                       subsetGetDataArray(ag, views[v], "names"))

\* The caller assigns x to every element of the array it holds.
WriteReturned(x) ==
    /\ ret.some
    /\ ret' = [ret EXCEPT !.val = Fill(ret, x)]
    /\ ag' = writeInto(ag, ret, x)
    /\ op' = [name |-> "write returned", err |-> ""]
    /\ UNCHANGED <<tnext, views, now, newmol>>

NextGet ==
    \/ \E arr \in GetArrays : WriteCoords(arr)
    \/ \E index \in {0, 1} : SetACSIndex(index)
    \/ \E array \in GetDataArgs : SetField("names", array)
    \/ \E data \in GetDataArgs : SetData("flag", data)
    \/ \E index \in AtomIndices : ~HasView("Atom") /\ GetItem(index)
    \/ ~HasView("Selection") /\ GetSlice(0, MaxAtoms)
    \/ \E v \in 1..MaxViews : AtomSetCoords(v, 1)
    \/ GetStore
    \/ \E v \in 1..MaxViews : GetView(v)
    \/ WriteReturned(1)

SpecGet == Init /\ [][NextGet]_vars

----
\* The store with user data under the labels of Labels.
NextLabels ==
    \/ \E arr \in Arrays2 : SetCoords(arr)
    \/ \E label \in Labels, data \in DataArgs : SetData(label, data)
    \/ \E label \in Labels : DelData(label)

SpecLabels == Init /\ [][NextLabels]_vars

----
\* The store with serial numbers, its views and the serial index.

\* The serial numbers the set methods are called with are -1..MaxAtoms.

GetBySerial(serial) ==
    /\ Call("getBySerial", getBySerial(ag, serial))
    /\ UNCHANGED <<tnext, views, now, ret, newmol>>

AtomSetData(v, var, value) ==
    /\ v \in DOMAIN views
    /\ views[v].kind = "Atom"
    /\ Call("atom.setData", atomSetData(ag, views[v], var, value))
    /\ UNCHANGED <<tnext, views, now, ret, newmol>>

SubsetSetData(v, var, value) ==
    /\ v \in DOMAIN views
    /\ views[v].kind = "Selection"
    /\ Call("subset.setData", subsetSetData(ag, views[v], var, value))
    /\ UNCHANGED <<tnext, views, now, ret, newmol>>

NextSerial ==
    \/ \E val \in [1..MaxAtoms -> (-1)..MaxAtoms] :
          SetField("serials", DataArg("list", 1, val))
    \/ \E serial \in 0..MaxAtoms : GetBySerial(serial)
    \/ \E index \in AtomIndices : ~HasView("Atom") /\ GetItem(index)
    \/ ~HasView("Selection") /\ GetSlice(0, 1)
    \/ \E v \in 1..MaxViews, value \in (-1)..MaxAtoms :
           AtomSetData(v, "serials", value)
    \/ \E v \in 1..MaxViews, value \in (-1)..MaxAtoms :
           SubsetSetData(v, "serials", value)

SpecSerial == Init /\ [][NextSerial]_vars

----
\* The store merged with other stores.

\* The stores the store is merged with: a new one, one with one coordinate
\* set whose rows alternate, and one with names and with two coordinate
\* sets, the first with all rows equal.
OtherStores ==
    LET alt == [r \in 1..MaxAtoms |-> r % 2]
        zero == [r \in 1..MaxAtoms |-> 0]
        one == setCoords(NewAtomGroup, Array2(alt), NoLabel, 0).ag
        two == setCoords(NewAtomGroup,
                         [ndim |-> 3, stack |-> <<zero, alt>>], NoLabel, 0).ag
    IN  {NewAtomGroup, one,
         setField(two, "names", DataArg("list", 1, zero)).ag}

\* a + b: newmol is the store returned.
Merge(o) ==
    /\ LET r == add(ag, o, FALSE, now)
       IN  /\ ag' = r.self
           /\ newmol' = r.new
           /\ op' = [name |-> "add", err |-> r.err]
    /\ UNCHANGED <<tnext, views, now, ret>>

\* a + a
MergeSelf ==
    /\ LET r == add(ag, ag, TRUE, now)
       IN  /\ ag' = r.self
           /\ newmol' = r.new
           /\ op' = [name |-> "add(self)", err |-> r.err]
    /\ UNCHANGED <<tnext, views, now, ret>>

NextMerge ==
    \/ \E arr \in Arrays : SetCoords(arr)
    \/ \E arr \in Arrays2 : AddCoordset(arr)
    \/ \E array \in GetDataArgs : SetField("names", array)
    \/ \E o \in OtherStores : Merge(o)
    \/ MergeSelf

SpecMerge == Init /\ [][NextMerge]_vars

----
\* The store and its copies.

\* The selectors copy is called with on a store of n atoms: None, every
\* index, and the lists of the last index and of all indices in descending
\* order.
Selectors(n) ==
    {Indices("None", <<>>)}
    \cup {Indices("int", <<i>>) : i \in 0..(n - 1)}
    \cup {Indices("list", <<n - 1>>) : i \in 1..Min(n, 1)}
    \cup {Indices("list", [j \in 1..n |-> n - j]) : i \in 1..Min(n, 1)}

\* newmol is the store copy returns.
Copy(which) ==
    /\ LET r == copy(ag, which, now)
       IN  /\ newmol' = r.new
           /\ op' = [name |-> "copy", err |-> r.err]
    /\ UNCHANGED <<ag, tnext, views, now, ret>>

NextCopy ==
    \/ \E arr \in GetArrays : SetCoords(arr)
    \/ \E array \in GetDataArgs : SetField("names", array)
    \/ \E data \in GetDataArgs : SetData("flag", data)
    \/ ~ag.trajectory /\ SetTrajectory
    \/ \E which \in Selectors(ag.n_atoms) : Copy(which)

SpecCopy == Init /\ [][NextCopy]_vars

----
\* The store with subset views and their unions, intersections and
\* complements.  The views are made by indexing, a chain or a residue as
\* the first view; the result of a set operation is a further view.

\* The coordinate array of this specification holds two sets for MaxAtoms
\* atoms; the chain identifiers alternate from atom to atom.

\* The views that are subsets.
Subsets == {v \in DOMAIN views : views[v].kind # "Atom"}

GetHier(name, r) ==
    /\ Len(views) < MaxViews
    /\ ag.n_atoms > 0
    /\ ag' = r.ag
    /\ views' = IF r.none THEN views ELSE Append(views, r.view)
    /\ op' = [name |-> name, err |-> r.err]
    /\ UNCHANGED <<tnext, now, ret, newmol>>

GetChain(chid) == GetHier("getitem(chid)", hvChain(ag, chid))

GetResidue(chid, resnum) ==
    GetHier("getitem(chid, resnum)", hvResidue(ag, chid, resnum))

\* A set operation of views; the view returned is the last of views.
SetOp(name, r) ==
    /\ Len(views) <= MaxViews
    /\ views' = IF r.err = "" /\ ~r.none THEN Append(views, r.view)
                ELSE views
    /\ op' = [name |-> name, err |-> r.err]
    /\ UNCHANGED <<ag, tnext, now, ret, newmol>>

Or(v, w, foreign) ==
    /\ v \in Subsets /\ w \in Subsets
    /\ SetOp("or", or(views[v], views[w], foreign, v = w))

And(v, w, foreign, sorts) ==
    /\ v \in Subsets /\ w \in Subsets
    /\ SetOp("and", and(views[v], views[w], foreign, v = w, sorts))

Invert(v) ==
    /\ v \in Subsets
    /\ SetOp("invert", invert(ag, views[v]))

NextSets ==
    \/ SetCoords([ndim |-> 3, stack |-> Repeat(Repeat(0, MaxAtoms), 2)])
    \/ SetField("chids", DataArg("ndarray", 1, [r \in 1..MaxAtoms |-> r % 2]))
    \/ \E sl \in {<<0, 0>>, <<1, MaxAtoms>>, <<0, MaxAtoms>>} :
          GetSlice(sl[1], sl[2])
    \/ views = <<>> /\ GetChain(1)
    \/ views = <<>> /\ GetResidue(0, 0)
    \/ ViewSetACSIndex(1, 1)
    \/ \E v, w \in 1..(MaxViews + 1), foreign \in BOOLEAN : Or(v, w, foreign)
    \/ \E v, w \in 1..(MaxViews + 1), foreign, sorts \in BOOLEAN :
           And(v, w, foreign, sorts)
    \/ \E v \in 1..(MaxViews + 1) : Invert(v)

SpecSets == Init /\ [][NextSets]_vars

----
\* The store with mapped views: the sum of two views, and a mapped view made
\* directly that maps the last atom to slot 1 and leaves slot 0 unmapped.

\* a + b for two views; the view returned is the last of views.
Add(v, w, foreign) ==
    /\ v \in DOMAIN views /\ w \in DOMAIN views
    /\ SetOp("add", pointerAdd(views[v], views[w], foreign))

NewMap ==
    /\ Len(views) < MaxViews
    /\ ag.n_atoms > 0
    /\ views' = Append(views,
                       AtomMap(<<ag.n_atoms - 1>>, <<1>>, <<0>>, ag.acsi))
    /\ op' = [name |-> "AtomMap", err |-> ""]
    /\ UNCHANGED <<ag, tnext, now, ret, newmol>>

\* A get method of the mapped view v; ret is the array returned.
MapGet(v, name, r) ==
    /\ v \in DOMAIN views
    /\ views[v].kind = "AtomMap"
    /\ views[v].acsi # NoneInt
    /\ ret' = IF r.err = "" /\ ~r.none
              THEN [NoArray EXCEPT !.some = TRUE, !.ndim = 1, !.val = r.val]
              ELSE NoArray
    /\ op' = [name |-> name, err |-> r.err]
    /\ UNCHANGED <<ag, tnext, views, now, newmol>>

MapSetCoords(v, coords) ==
    /\ v \in DOMAIN views
    /\ views[v].kind = "AtomMap"
    /\ views[v].acsi # NoneInt
    /\ Call("map.setCoords", mapSetCoords(ag, views[v], coords))
    /\ UNCHANGED <<tnext, views, now, ret, newmol>>

NextMap ==
    \/ \E arr \in GetArrays : SetCoords(arr)
    \/ SetField("names", DataArg("ndarray", 1, [r \in 1..MaxAtoms |-> r % 2]))
    \/ \E index \in {0, MaxAtoms - 1} : GetItem(index)
    \/ GetSlice(0, MaxAtoms)
    \/ GetChain(0)
    \/ NewMap
    \/ \E v, w \in 1..(MaxViews + 1), foreign \in BOOLEAN : Add(v, w, foreign)
    \/ \E v \in 1..(MaxViews + 1) :
           MapGet(v, "map.getData", mapGet(views[v], ag.data["names"]))
    \/ \E v \in 1..(MaxViews + 1) :
           MapGet(v, "map.getCoords", mapGetCoords(ag, views[v]))
    \/ \E v \in 1..(MaxViews + 1) : MapSetCoords(v, 1)

SpecMap == Init /\ [][NextMap]_vars

----
\* The store with chain identifiers, residue numbers and insertion codes for
\* HierAtoms atoms, its hierarchical view, and the hierarchical views of a
\* Selection.

\* The arrays the three fields are set to: all values equal, values that
\* alternate, and two runs.
HierVals ==
    {[r \in 1..HierAtoms |-> 0], [r \in 1..HierAtoms |-> r % 2],
     [r \in 1..HierAtoms |-> IF 2 * r > HierAtoms THEN 1 ELSE 0]}

\* Selection.getHierView() of the view v.
SelectionGetHierView(v) ==
    /\ v \in DOMAIN views
    /\ views[v].kind = "Selection"
    /\ Call("selection.getHierView", selectionGetHierView(ag, views[v]))
    /\ UNCHANGED <<tnext, views, now, ret, newmol>>

NextHier ==
    \/ \E var \in {"chids", "resnums", "icodes"}, val \in HierVals :
           SetField(var, DataArg("ndarray", 1, val))
    \/ GetHierView
    \/ ~HasView("Selection") /\ GetSlice(1, HierAtoms)
    \/ ~HasView("Atom") /\ GetItem(0)
    \/ \E v \in 1..MaxViews : SelectionGetHierView(v)
    \/ \E v \in 1..MaxViews : AtomSetData(v, "chids", 1)
    \/ \E v \in 1..MaxViews : SubsetSetData(v, "resnums", 1)

SpecHier == Init /\ [][NextHier]_vars

----
\* The store written through itself and through its views.  The Store is
\* given three, two or one coordinate sets; the views are an Atom and a
\* Selection, each with the active coordinate set index the Store had
\* when the view was made.

SubsetSetCoords(v, coords) ==
    /\ v \in DOMAIN views
    /\ views[v].kind = "Selection"
    /\ views[v].acsi # NoneInt
    /\ Call("subset.setCoords", subsetSetCoords(ag, views[v], coords, now))
    /\ UNCHANGED <<tnext, views, now, ret, newmol>>

NextWrite ==
    \/ \E k \in 2..MaxCsets :
           SetCoords([ndim |-> 3, stack |-> Repeat(Repeat(0, MaxAtoms), k)])
    \/ SetCoords(Array2([r \in 1..MaxAtoms |-> r % 2]))
    \/ \E index \in 0..(MaxCsets - 1) : SetACSIndex(index)
    \/ \E array \in GetDataArgs : SetField("names", array)
    \/ ~HasView("Atom") /\ GetItem(0)
    \/ ~HasView("Selection") /\ GetSlice(0, MaxAtoms)
    \/ \E v \in 1..MaxViews : AtomSetData(v, "names", 1)
    \/ \E v \in 1..MaxViews : SubsetSetData(v, "names", 1)
    \/ \E v \in 1..MaxViews : AtomSetCoords(v, 1)
    \/ \E v \in 1..MaxViews : SubsetSetCoords(v, 1)

SpecWrite == Init /\ [][NextWrite]_vars

----
\* The store and the clock.  time.time() returns now; the clock advances
\* between calls, up to MaxTime.

Tick ==
    /\ now < MaxTime
    /\ now' = now + 1
    /\ op' = [name |-> "time", err |-> ""]
    /\ UNCHANGED <<ag, tnext, views, ret, newmol>>

NextTime ==
    \/ Tick
    \/ \E arr \in GetArrays : SetCoords(arr)
    \/ ~HasView("Atom") /\ GetItem(0)
    \/ ~HasView("AtomMap") /\ NewMap
    \/ \E v \in 1..MaxViews : AtomSetCoords(v, 1)
    \/ \E v \in 1..MaxViews : MapSetCoords(v, 1)
    \/ SetTrajectory
    \/ NextFrame(1)
    \/ GotoFrame(0)
    \/ SaveLoad

SpecTime == Init /\ [][NextTime]_vars

----
\* The store indexed: views are obtained with an integer, in range or not,
\* a slice, a chain identifier and a (chain identifier, residue number)
\* tuple, while the Store changes its coordinate sets and its active index.

NextIndex ==
    \/ \E k \in 1..MaxCsets :
           SetCoords([ndim |-> 3, stack |-> Repeat(Repeat(0, MaxAtoms), k)])
    \/ \E index \in {0, MaxCsets - 1} : SetACSIndex(index)
    \/ DelCoordset(0)
    \/ \E index \in {-(MaxAtoms + 1), 0, MaxAtoms} : GetItem(index)
    \/ GetSlice(0, MaxAtoms)
    \/ GetChain(0)
    \/ GetResidue(0, 0)
    \/ SetTrajectory
    \/ UnsetTrajectory

SpecIndex == Init /\ [][NextIndex]_vars

----
\* The properties.

\* index is a valid index into a Python sequence of k items.
InRange(index, k) == -k <= index /\ index < k

\* The 0-based position a valid index stands for.
Wrap(index, k) == IF index < 0 THEN index + k ELSE index

\* The coordinate sets of the store, <<>> when coordinates is None.
Csets(s) == IF s.coordinates.some THEN s.coordinates.val ELSE <<>>

\* C1 as stated: for an array X of shape (n,3), n = numAtoms(), after a
\* setCoords(X) that succeeds getCoords() equals X, and numCoordsets() and
\* every coordinate set other than the active one are unchanged.
C1_AsStated ==
    [][\A X \in Arrays2 :
          (/\ op'.name = "setCoords"
           /\ op'.err = ""
           /\ ag.n_atoms > 0
           /\ Len(X.stack[1]) = ag.n_atoms
           /\ SetCoords(X))
          => /\ getCoords(ag') = Some(X.stack[1])
             /\ numCoordsets(ag') = numCoordsets(ag)
             /\ \A j \in 1..ag.n_csets :
                    j # ag.acsi + 1 => Csets(ag')[j] = Csets(ag)[j]]_vars

\* C1 amended: in every state of the store and for every array X of shape
\* (n,3), n = numAtoms() or any n while the store has no atoms, after a
\* setCoords(X) that succeeds getCoords() equals X; a store that held
\* coordinate sets keeps their number and every set other than the active
\* one, a store that held none has one coordinate set.
C1_RoundTrip ==
    \A X \in Arrays2 :
        LET r == setCoords(ag, X, NoLabel, now)
        IN  (ag.n_atoms \in {0, Len(X.stack[1])} /\ r.err = "")
            => /\ getCoords(r.ag) = Some(X.stack[1])
               /\ numCoordsets(r.ag) =
                      IF numCoordsets(ag) = 0 THEN 1 ELSE numCoordsets(ag)
               /\ \A j \in 1..ag.n_csets :
                      j # ag.acsi + 1 => Csets(r.ag)[j] = Csets(ag)[j]

\* A setCoords has succeeded on a store with MaxCsets coordinate sets, more
\* than one call assigns, whose active set is not the first.
C1_Witness ==
    /\ op = [name |-> "setCoords", err |-> ""]
    /\ ag.n_csets = MaxCsets
    /\ ag.acsi > 0
    /\ ag.n_atoms = MaxAtoms

\* C2: once the atom count n of the store is fixed (n > 0), every call of a
\* field set method or of setData with an array whose length differs from n
\* raises, and no operation on the store changes numAtoms().
C2_FixedArity ==
    [][ag.n_atoms > 0
       => /\ numAtoms(ag') = numAtoms(ag)
          /\ (op'.name \in {"setField", "setData"} /\ op'.err = "")
             => \A a \in DataArgs :
                    Len(a.val) # ag.n_atoms
                    => /\ \A var \in SetFields : ~SetField(var, a)
                       /\ \A label \in UserLabels : ~SetData(label, a)]_vars

\* setData has raised ValueError for a label that is valid, that is for an
\* array of another length, on a store of MaxAtoms atoms with data.
C2_Witness ==
    /\ op = [name |-> "setData", err |-> "ValueError"]
    /\ ag.n_atoms = MaxAtoms
    /\ ag.data["flag"].some
    /\ ag.data["names"].some

\* C3: in every reachable state every built-in field array that is set,
\* every user-label array and the entity dimension of the coordinate stack
\* have length numAtoms().
C3_AllArraysLength ==
    /\ \A k \in DataKeys :
           ag.data[k].some => Len(ag.data[k].val) = numAtoms(ag)
    /\ \A j \in 1..Len(Csets(ag)) : Len(Csets(ag)[j]) = numAtoms(ag)

\* C4: whenever the store has coordinate sets its active coordinate set
\* index is at least 0 and less than their number.
C4_ActiveIndexInRange ==
    ag.n_csets > 0 => (0 <= ag.acsi /\ ag.acsi < ag.n_csets)

\* The stack of a store with a trajectory, whose active set was the last
\* one, has been replaced by a shorter one.
C4_Witness ==
    /\ op = [name |-> "setCoords", err |-> ""]
    /\ ag.n_csets = 2
    /\ ag.acsi = 1
    /\ ag.trajectory
    /\ ag.coordinates.val[1] # ag.coordinates.val[2]

\* C5 as stated: setCoords with an array of k >= 1 coordinate sets on a
\* store that holds coordinates replaces the whole stack: there are k sets,
\* they are the sets of the array, and the active index is the smaller of
\* its previous value and k-1.
C5_AsStated ==
    [][\A X \in Arrays3 :
          (/\ op'.name = "setCoords"
           /\ op'.err = ""
           /\ ag.coordinates.some
           /\ EntityDim(X.stack) = ag.n_atoms
           /\ SetCoords(X))
          => /\ ag'.n_csets = Len(X.stack)
             /\ Csets(ag') = X.stack
             /\ ag'.acsi = IF ag.acsi < Len(X.stack) - 1 THEN ag.acsi
                           ELSE Len(X.stack) - 1]_vars

\* C5 amended: in every state of a store that holds coordinates, setCoords
\* with an array of k >= 2 coordinate sets succeeds and replaces the whole
\* stack as stated; with k = 1 a call that succeeds replaces the active
\* coordinate set only: the number of sets, the other sets and the active
\* index are unchanged.
C5_ReplaceStack ==
    \A X \in Arrays3 :
        LET r == setCoords(ag, X, NoLabel, now)
            k == Len(X.stack)
        IN  (ag.coordinates.some /\ EntityDim(X.stack) = ag.n_atoms)
            => IF k >= 2
               THEN /\ r.err = ""
                    /\ r.ag.n_csets = k
                    /\ Csets(r.ag) = X.stack
                    /\ r.ag.acsi = IF ag.acsi < k - 1 THEN ag.acsi ELSE k - 1
               ELSE r.err = ""
                    => /\ r.ag.n_csets = ag.n_csets
                       /\ r.ag.acsi = ag.acsi
                       /\ Len(Csets(r.ag)) = Len(Csets(ag))
                       /\ \A j \in 1..Len(Csets(ag)) :
                              Csets(r.ag)[j] =
                                  IF j = ag.acsi + 1 THEN X.stack[1]
                                  ELSE Csets(ag)[j]

\* A stack has been replaced by one of two different sets while the store
\* has no trajectory, and the active index is that of the last set.
C5_Witness ==
    /\ op = [name |-> "setCoords", err |-> ""]
    /\ ag.n_csets = 2
    /\ ag.acsi = 1
    /\ ~ag.trajectory
    /\ ag.coordinates.val[1] # ag.coordinates.val[2]

\* C6 as stated: setACSIndex(i) on the store or on a view raises IndexError
\* when i is outside [-n_csets, n_csets); otherwise it sets the active
\* index of that object to i, or to i + n_csets when i < 0, and changes
\* neither the coordinates nor the active index of the store or of another
\* view.
C6_AsStated ==
    [][/\ \A i \in CsetIndices :
              (op'.name = "setACSIndex" /\ SetACSIndex(i))
              => IF InRange(i, ag.n_csets)
                 THEN /\ op'.err = ""
                      /\ ag'.acsi = Wrap(i, ag.n_csets)
                      /\ ag'.coordinates = ag.coordinates
                      /\ views' = views
                 ELSE op'.err = "IndexError"
       /\ \A v \in DOMAIN views, i \in CsetIndices :
              (op'.name = "view.setACSIndex" /\ ViewSetACSIndex(v, i))
              => IF InRange(i, ag.n_csets)
                 THEN /\ op'.err = ""
                      /\ views'[v].acsi = Wrap(i, ag.n_csets)
                      /\ ag' = ag
                      /\ \A w \in DOMAIN views : w # v => views'[w] = views[w]
                 ELSE op'.err = "IndexError"]_vars

\* C6 amended: as stated, except that on a view of a store that has no
\* coordinates setACSIndex raises AttributeError for every index.
C6_SetACSIndex ==
    [][/\ op'.name = "setACSIndex"
          => \A i \in CsetIndices :
                 SetACSIndex(i)
                 => IF InRange(i, ag.n_csets)
                    THEN /\ op'.err = ""
                         /\ ag'.acsi = Wrap(i, ag.n_csets)
                         /\ ag'.coordinates = ag.coordinates
                         /\ views' = views
                    ELSE op'.err = "IndexError"
       /\ op'.name = "view.setACSIndex"
          => \A v \in DOMAIN views, i \in CsetIndices :
                 ViewSetACSIndex(v, i)
                 => IF ~ag.coordinates.some
                    THEN op'.err = "AttributeError"
                    ELSE IF InRange(i, ag.n_csets)
                    THEN /\ op'.err = ""
                         /\ views'[v].acsi = Wrap(i, ag.n_csets)
                         /\ ag' = ag
                         /\ \A w \in DOMAIN views :
                                w # v => views'[w] = views[w]
                    ELSE op'.err = "IndexError"]_vars

\* A view has been given an active index greater than 0 that differs from
\* that of the store and from that of the other view.
C6_Witness ==
    /\ op = [name |-> "view.setACSIndex", err |-> ""]
    /\ Len(views) = 2
    /\ views[1].acsi # views[2].acsi
    /\ ag.n_csets = MaxCsets
    /\ \E v \in DOMAIN views : views[v].acsi > 0 /\ views[v].acsi # ag.acsi

\* C7: in every state of a store with k >= 1 coordinate sets and no
\* trajectory, addCoordset with m >= 1 sets leaves k + m sets, the new ones
\* after the old ones in the order given, and changes neither the old sets
\* nor the active index.
C7_Append ==
    \A X \in Arrays :
        LET r == addCoordset(ag, X, NoLabel, now)
            k == ag.n_csets
            m == Len(X.stack)
        IN  (/\ k >= 1
             /\ k + m <= MaxCsets
             /\ ~ag.trajectory
             /\ EntityDim(X.stack) = ag.n_atoms)
            => /\ numCoordsets(r.ag) = k + m
               /\ Len(Csets(r.ag)) = k + m
               /\ \A j \in 1..k : Csets(r.ag)[j] = Csets(ag)[j]
               /\ \A j \in 1..m : Csets(r.ag)[k + j] = X.stack[j]
               /\ r.ag.acsi = ag.acsi

\* Sets have been added to a store, and the three it has now differ from
\* their neighbours.
C7_Witness ==
    /\ op = [name |-> "addCoordset", err |-> ""]
    /\ ag.n_csets = 3
    /\ ag.coordinates.val[2] # ag.coordinates.val[3]
    /\ ag.coordinates.val[1] # ag.coordinates.val[2]

\* C8: in every state of a store without a trajectory, delCoordset(i) with
\* a valid index removes set i: of k >= 2 sets the others remain, in order
\* and unchanged; of one set nothing remains (getCoords() is None,
\* numCoordsets() is 0, the active index is None); with no coordinate sets
\* the call raises and changes nothing.
C8_Delete ==
    \A i \in CsetIndices :
        LET r == delCoordset(ag, i)
            k == ag.n_csets
        IN  ~ag.trajectory
            => /\ k = 0 => (r.err # "" /\ r.ag = ag)
               /\ (k >= 2 /\ InRange(i, k))
                  => /\ numCoordsets(r.ag) = k - 1
                     /\ Len(Csets(r.ag)) = k - 1
                     /\ \A j \in 1..(k - 1) :
                            Csets(r.ag)[j] =
                                IF j <= Wrap(i, k) THEN Csets(ag)[j]
                                ELSE Csets(ag)[j + 1]
               /\ (k = 1 /\ InRange(i, k))
                  => /\ getCoords(r.ag) = NoneArr
                     /\ numCoordsets(r.ag) = 0
                     /\ getACSIndex(r.ag) = NoneInt

\* A set has been deleted from a store, and the two sets that remain differ.
C8_Witness ==
    /\ op = [name |-> "delCoordset", err |-> ""]
    /\ ag.n_csets = 2
    /\ ag.coordinates.val[1] # ag.coordinates.val[2]
    /\ ag.n_atoms = MaxAtoms

\* C9: while a trajectory is associated with the store addCoordset and
\* delCoordset raise and no call changes numCoordsets().
C9_Locked ==
    [][/\ (ag.trajectory /\ ag'.trajectory)
          => numCoordsets(ag') = numCoordsets(ag)
       /\ (ag.trajectory /\ op'.name \in {"addCoordset", "delCoordset"})
          => op'.err # ""]_vars

\* C11: with a trajectory, every nextFrame(step), step >= 1, and every
\* gotoFrame(n) for a frame the source has succeeds, reads one frame, the one
\* after step - 1 skipped frames or frame n, and stores it in the active
\* coordinate set; without a trajectory both raise and leave the store
\* unchanged.
C11_ReadFrame ==
    [][/\ op'.name = "nextFrame"
          => \A step \in 1..2 :
                 LongNextFrame(step)
                 => IF ag.trajectory
                    THEN /\ op'.err = ""
                         /\ tnext' = tnext + step
                         /\ getCoords(ag') = Some(Frame(tnext + step - 1))
                    ELSE op'.err # "" /\ ag' = ag
       /\ op'.name = "gotoFrame"
          => \A n \in 0..(LongFrames - 1) :
                 LongGotoFrame(n)
                 => IF ag.trajectory
                    THEN /\ op'.err = ""
                         /\ tnext' = n + 1
                         /\ getCoords(ag') = Some(Frame(n))
                    ELSE op'.err # "" /\ ag' = ag]_vars

\* C10: setTrajectory(trajectory) appends one coordinate set, which is the
\* last and the active one, and setTrajectory(None) removes that set, the
\* last one, and leaves the sets before it; the store is then unlocked.
C10_BindUnbind ==
    [][/\ (op'.name = "setTrajectory" /\ op'.err = "")
          => /\ numCoordsets(ag') = ag.n_csets + 1
             /\ Len(Csets(ag')) = ag.n_csets + 1
             /\ \A j \in 1..ag.n_csets : Csets(ag')[j] = Csets(ag)[j]
             /\ ag'.acsi = ag.n_csets
             /\ ag'.trajectory
       /\ (op'.name = "setTrajectory(None)" /\ ag.trajectory)
          => /\ numCoordsets(ag') = ag.n_csets - 1
             /\ Len(Csets(ag')) = ag.n_csets - 1
             /\ \A j \in 1..(ag.n_csets - 1) : Csets(ag')[j] = Csets(ag)[j]
             /\ ~ag'.trajectory]_vars

WellFormed(label) ==
    /\ label # ""
    /\ isalpha(Chars(label)[1])
    /\ \A j \in 1..Len(Chars(label)) :
           isalnumChar(Chars(label)[j]) \/ Chars(label)[j] = "_"
    /\ ~isReserved(label)

\* C13: in every state of the store, setData(label, data) changes the label
\* map only when label is a non-empty string that starts with a letter,
\* contains only alphanumeric characters and underscores and is not a
\* reserved word; for every other label it raises and the label map is
\* unchanged.
C13_LabelRule ==
    \A label \in Labels, data \in DataArgs :
        LET r == setData(ag, label, data)
        IN  /\ r.ag.data # ag.data => WellFormed(label)
            /\ ~WellFormed(label) => (r.err # "" /\ r.ag.data = ag.data)

\* The serial numbers are unique and none is negative.
GoodSerials(sv) ==
    /\ Cardinality(Elements(sv)) = Len(sv)
    /\ \A i \in 1..Len(sv) : sv[i] >= 0

\* getBySerial(serial) on store s answers according to the serial numbers
\* sv: it returns the atom whose serial number is serial, and None when
\* there is no such atom.
Answers(s, sv, serial) ==
    LET r == getBySerial(s, serial)
    IN  /\ r.err = ""
        /\ \A i \in 1..Len(sv) : sv[i] = serial => r.index = i - 1
        /\ (\A i \in 1..Len(sv) : sv[i] # serial) => r.index = NoneInt

\* C14: after the set method of the Store has assigned serial numbers,
\* getBySerial raises when they contain a duplicate or a negative value,
\* and else returns for every s the one atom whose serial number is s, and
\* None when there is none.
C14_SerialLookup ==
    (op = [name |-> "setField", err |-> ""] /\ ag.data["serials"].some)
    => \A serial \in 0..MaxAtoms :
           IF GoodSerials(ag.data["serials"].val)
           THEN Answers(ag, ag.data["serials"].val, serial)
           ELSE getBySerial(ag, serial).err # ""

\* C15: after every write of the serial numbers that succeeds, through the
\* set method of the Store, of a subset view or of an Atom view, getBySerial
\* answers according to the serial numbers the Store holds now.
C15_IndexInvalidated ==
    (/\ op.name \in {"setField", "subset.setData", "atom.setData"}
     /\ op.err = ""
     /\ GoodSerials(ag.data["serials"].val))
    => \A serial \in 0..MaxAtoms :
           Answers(ag, ag.data["serials"].val, serial)

C17_Copy ==
    \A which \in Selectors(ag.n_atoms) :
        LET r == copy(ag, which, now)
            idx == IF which.kind = "None"
                   THEN [j \in 1..ag.n_atoms |-> j - 1] ELSE which.val
        IN  /\ r.err = ""
            /\ ~r.new.trajectory
            /\ numCoordsets(r.new) = numCoordsets(ag)
            /\ \A j \in 1..numCoordsets(ag) :
                   Csets(r.new)[j] = Take(Csets(ag)[j], idx)
            /\ \A k \in DataKeys :
                   r.new.data[k] = IF ag.data[k].some
                                   THEN Some(Take(ag.data[k].val, idx))
                                   ELSE NoneArr
            /\ r.shares = {}

\* C18: in every state, for subset views a and b of the store, a | b is a
\* view whose indices are the union of the indices of a and b, ascending
\* and without duplicates, and whose active index is that of a and b, or 0
\* when their active indices differ.
C18_Union ==
    \A v \in Subsets, w \in Subsets :
        LET a == views[v]
            b == views[w]
            r == or(a, b, FALSE, v = w)
        IN  /\ r.err = ""
            /\ ~r.none
            /\ r.view.indices =
                   SortedSeq(Elements(a.indices) \cup Elements(b.indices))
            /\ r.view.acsi = IF a.acsi = b.acsi THEN a.acsi ELSE 0

\* The union of a chain and a selection has been made: the two have
\* different active indices and neither holds all atoms of the union, whose
\* active index is 0.
C18_Witness ==
    /\ op = [name |-> "or", err |-> ""]
    /\ Len(views) = 3
    /\ views[1].kind = "Chain"
    /\ views[1].acsi = 1
    /\ views[2].acsi = 0
    /\ views[3].acsi = 0
    /\ Elements(views[3].indices) =
           Elements(views[1].indices) \cup Elements(views[2].indices)
    /\ Len(views[3].indices) > Len(views[1].indices)
    /\ Len(views[3].indices) > Len(views[2].indices)

\* C19: in every state, for subset views a and b of the store, a & b does
\* not raise; it is a view whose indices are the intersection of the
\* indices of a and b, ascending and without duplicates, and it is None
\* when a and b have no index in common.
C19_Intersection ==
    \A v \in Subsets, w \in Subsets, sorts \in BOOLEAN :
        LET a == views[v]
            b == views[w]
            common == Elements(a.indices) \cap Elements(b.indices)
            r == and(a, b, FALSE, v = w, sorts)
        IN  /\ r.err = ""
            /\ IF common = {} /\ v # w THEN r.none
               ELSE ~r.none /\ r.view.indices = SortedSeq(common)

\* C20: in every state, for every subset view a of the store of n atoms,
\* ~a is a view that holds the indices of 0..n-1 that a does not hold, in
\* ascending order, and ~(~a) holds the indices a holds.
C20_Complement ==
    \A v \in Subsets :
        LET a == views[v]
            r == invert(ag, a)
            rr == invert(ag, r.view)
        IN  /\ r.err = ""
            /\ ~r.none
            /\ r.view.indices =
                   SortedSeq((0..(numAtoms(ag) - 1)) \ Elements(a.indices))
            /\ rr.err = ""
            /\ Elements(rr.view.indices) = Elements(a.indices)

\* The complement of a chain and the complement of that complement have
\* been made: the third view holds the indices of the chain again.
C20_Witness ==
    /\ op = [name |-> "invert", err |-> ""]
    /\ Len(views) = 3
    /\ views[1].kind = "Chain"
    /\ views[1].indices # <<>>
    /\ views[2].indices # <<>>
    /\ Elements(views[2].indices) =
           (0..(numAtoms(ag) - 1)) \ Elements(views[1].indices)
    /\ views[3].indices = views[1].indices

\* numAtoms() of a view.
NumAtoms(v) == IF v.kind = "AtomMap" THEN v.len ELSE Len(v.indices)

\* C21: for every mapped view, made directly or by a + b, numMapped() +
\* numUnmapped() is numAtoms(), and the get method of a field and getCoords
\* return 0 at every unmapped slot and at slot mapping[j] the value the Store
\* holds at indices[j].
C21_MappedAccounting ==
    \A v \in DOMAIN views :
        views[v].kind = "AtomMap" /\ views[v].acsi # NoneInt
        => LET m == views[v]
               Reads(r, array) ==
                   /\ r.err = "" /\ ~r.none
                   /\ \A j \in 1..Len(m.unmapped) : r.val[m.unmapped[j] + 1] = 0
                   /\ \A j \in 1..Len(m.mapping) :
                          r.val[m.mapping[j] + 1] = array[m.indices[j] + 1]
           IN  /\ Len(m.mapping) + Len(m.unmapped) = NumAtoms(m)
               /\ ag.data["names"].some
                  => Reads(mapGet(m, ag.data["names"]), ag.data["names"].val)
               /\ ag.coordinates.some
                  => Reads(mapGetCoords(ag, m),
                           ag.coordinates.val[m.acsi + 1])

\* C22: for two views a and b of the Store, a + b is a mapped view of
\* numAtoms(a) + numAtoms(b) atoms whose indices are those of a followed by
\* those of b, with as many mapping entries as indices, whose mapping and
\* unmapped slots partition 0..total-1, and in which the atoms of a have the
\* first numAtoms(a) slots and those of b the slots offset by numAtoms(a).
C22_Sum ==
    \A v \in DOMAIN views, w \in DOMAIN views :
        LET a == views[v]
            b == views[w]
            r == pointerAdd(a, b, FALSE)
            m == r.view
            na == NumAtoms(a)
            slots(x) == IF x.kind = "AtomMap" THEN x.mapping
                        ELSE [j \in 1..Len(x.indices) |-> j - 1]
        IN  /\ r.err = "" /\ ~r.none
            /\ m.kind = "AtomMap"
            /\ NumAtoms(m) = na + NumAtoms(b)
            /\ m.indices = a.indices \o b.indices
            /\ Len(m.mapping) = Len(m.indices)
            /\ Elements(m.mapping) \cup Elements(m.unmapped)
                   = 0..(NumAtoms(m) - 1)
            /\ Cardinality(Elements(m.mapping) \cup Elements(m.unmapped))
                   = Len(m.mapping) + Len(m.unmapped)
            /\ \A j \in 1..Len(a.indices) : m.mapping[j] = slots(a)[j]
            /\ \A j \in 1..Len(b.indices) :
                   m.mapping[Len(a.indices) + j] = slots(b)[j] + na

\* C23: no operation invoked on a mapped view changes a coordinate or an
\* attribute value the Store holds.
C23_MappedReadOnly ==
    [][op'.name \in {"map.getData", "map.getCoords", "map.setCoords"}
       => ag' = ag]_vars

\* The chain identifier, residue number and insertion code of the atom at
\* index i, 0 for a field that is None (the value HierView.update sets).
Triple(s, i) ==
    [var \in {"chids", "resnums", "icodes"} |->
        IF s.data[var].some THEN s.data[var].val[i + 1] ELSE 0]

\* Every atom of the store has its three values: each of the three arrays is
\* None or has n_atoms entries.
HasTriples(s) ==
    \A var \in {"chids", "resnums", "icodes"} :
        s.data[var].some => Len(s.data[var].val) = s.n_atoms

\* The atoms of the store are ordered in contiguous runs by chain and by
\* residue.
InRuns(s) ==
    /\ HasTriples(s)
    /\ \A i, j, k \in 0..(s.n_atoms - 1) :
           i < j /\ j < k
           => /\ Triple(s, i) = Triple(s, k) => Triple(s, j) = Triple(s, i)
              /\ Triple(s, i)["chids"] = Triple(s, k)["chids"]
                 => Triple(s, j)["chids"] = Triple(s, i)["chids"]

\* The residues of a hierarchical view, each with the chain that holds it.
Residues(chains) ==
    {<<c, d>> \in (1..Len(chains)) \X (1..HierAtoms + 1) :
        d <= Len(chains[c].dict)}

\* C24: for a Store whose atoms are ordered in contiguous runs by chain and
\* residue, the hierarchical view built for it has as many residues as there
\* are distinct (chain identifier, residue number, insertion code) triples,
\* the indices of each residue are exactly the run of its triple, and every
\* atom is in exactly one residue, which is in the chain that holds the atom.
C24_Grouping ==
    InRuns(ag)
    => LET r == updateHierView(ag, TRUE, <<>>)
           n == ag.n_atoms
           res(cd) == r.chains[cd[1]].dict[cd[2]]
           run(cd) ==
               {i \in 0..(n - 1) :
                   /\ Triple(ag, i)["chids"] = r.chains[cd[1]].chid
                   /\ Triple(ag, i)["resnums"] = res(cd).res[1]
                   /\ Triple(ag, i)["icodes"] = res(cd).res[2]}
       IN  /\ r.err = ""
           /\ Cardinality(Residues(r.chains))
                  = Cardinality({Triple(ag, i) : i \in 0..(n - 1)})
           /\ \A cd \in Residues(r.chains) :
                  /\ run(cd) # {}
                  /\ res(cd).indices = SortedSeq(run(cd))
           /\ \A i \in 0..(n - 1) :
                  /\ Cardinality({cd \in Residues(r.chains) :
                                     i \in Elements(res(cd).indices)}) = 1
                  /\ \A cd \in Residues(r.chains) :
                         i \in Elements(res(cd).indices)
                         => i \in Elements(r.chains[cd[1]].indices)

\* getHierView has built the view of a store of HierAtoms atoms in two
\* chains, ordered in runs, one residue of which has two atoms or more.
C24_Witness ==
    /\ op = [name |-> "getHierView", err |-> ""]
    /\ ag.n_atoms = HierAtoms
    /\ InRuns(ag)
    /\ ag.hv.some
    /\ ag.hv.val = updateHierView(ag, TRUE, <<>>).chains
    /\ Len(ag.hv.val) = 2
    /\ \E cd \in Residues(ag.hv.val) :
           Len(ag.hv.val[cd[1]].dict[cd[2]].indices) >= 2

\* C25: for any target, the Store or a Selection, the hierarchical view built
\* for it has exactly one chain for each chain identifier among the atoms of
\* the target, holding all atoms of the target with that identifier, and in
\* each chain exactly one residue for each (residue number, insertion code)
\* among the atoms of the chain, holding all of them; chains and residues
\* are in the order of first appearance, and they partition the indices of
\* the target.
C25_Merged ==
    \A t \in {0} \cup {v \in DOMAIN views : views[v].kind = "Selection"} :
        LET target == IF t = 0 THEN [j \in 1..ag.n_atoms |-> j - 1]
                      ELSE views[t].indices
            r == updateHierView(ag, t = 0, target)
            s == r.ag
            atoms == Elements(target)
            first(S) == CHOOSE i \in S : \A j \in S : i <= j
            key(i) == <<Triple(s, i)["resnums"], Triple(s, i)["icodes"]>>
        IN  /\ r.err = ""
            /\ HasTriples(s)
            /\ {r.chains[c].chid : c \in 1..Len(r.chains)}
                   = {Triple(s, i)["chids"] : i \in atoms}
            /\ \A c \in 1..Len(r.chains) :
                  LET ch == r.chains[c]
                  IN  /\ Elements(ch.indices)
                             = {i \in atoms : Triple(s, i)["chids"] = ch.chid}
                      /\ Len(ch.indices) = Cardinality(Elements(ch.indices))
                      /\ \A c2 \in 1..Len(r.chains) :
                             /\ c # c2 => ch.chid # r.chains[c2].chid
                             /\ c < c2 => first(Elements(ch.indices))
                                          < first(Elements(r.chains[c2].indices))
                      /\ {ch.dict[d].res : d \in 1..Len(ch.dict)}
                             = {key(i) : i \in Elements(ch.indices)}
                      /\ \A d \in 1..Len(ch.dict) :
                             /\ Elements(ch.dict[d].indices)
                                    = {i \in Elements(ch.indices) :
                                          key(i) = ch.dict[d].res}
                             /\ Len(ch.dict[d].indices)
                                    = Cardinality(Elements(ch.dict[d].indices))
                             /\ \A d2 \in 1..Len(ch.dict) :
                                    /\ d # d2
                                       => ch.dict[d].res # ch.dict[d2].res
                                    /\ d < d2
                                       => first(Elements(ch.dict[d].indices))
                                          < first(Elements(ch.dict[d2].indices))

ValueAt(g, v, i) ==
    g.val[CHOOSE j \in 1..Len(v.indices) : v.indices[j] = i]

\* The views that contain atom i.
ViewsAt(i) ==
    {v \in DOMAIN views : \E j \in 1..Len(views[v].indices) :
                              views[v].indices[j] = i}

\* In store s the get method of field var returns x for atom i, through
\* the Store and through every view that contains i.
DataShown(s, var, i, x) ==
    /\ getDataArray(s, var).some
    /\ getDataArray(s, var).val[i + 1] = x
    /\ \A v \in ViewsAt(i) :
           LET g == viewGet(views[v], s.data[var])
           IN  g.err = "" /\ ~g.none /\ ValueAt(g, views[v], i) = x

\* In store s getCoords() returns x for atom i, through the Store and
\* through every view that contains i and has an active coordinate set
\* index.
CoordsShown(s, i, x) ==
    /\ getCoords(s).some
    /\ getCoords(s).val[i + 1] = x
    /\ \A v \in ViewsAt(i) :
           LET g == viewGetCoords(s, views[v])
           IN  views[v].acsi # NoneInt
                   => g.err = "" /\ ~g.none /\ ValueAt(g, views[v], i) = x

\* The values of field var and the coordinates of all sets at the atoms
\* that are not in view v are the same in stores s and t.
SameOutside(s, t, v) ==
    \A k \in 1..s.n_atoms :
        (\A j \in 1..Len(v.indices) : v.indices[j] # k - 1) =>
            /\ s.data["names"].some =>
                   t.data["names"].val[k] = s.data["names"].val[k]
            /\ s.coordinates.some =>
                   \A c \in 1..Len(s.coordinates.val) :
                       t.coordinates.val[c][k] = s.coordinates.val[c][k]

\* C27: a value written for atom i, to a field or to the coordinates, by a
\* set call on the Store or on a view that succeeds, is what the next get
\* call returns for atom i on the Store and on every view that contains i,
\* and the values of the atoms outside the writing view are unchanged.
C27_Visible ==
    \A i \in 0..(ag.n_atoms - 1) :
        /\ \A array \in GetDataArgs :
               LET r == setField(ag, "names", array)
               IN  r.err = "" => DataShown(r.ag, "names", i, array.val[i + 1])
        /\ LET cset == [r \in 1..ag.n_atoms |-> r % 2]
               r == setCoords(ag, Array2(cset), NoLabel, now)
           IN  r.err = "" => CoordsShown(r.ag, i, cset[i + 1])
        /\ \A k \in 2..MaxCsets :
               LET r == setCoords(ag, [ndim |-> 3,
                                       stack |-> Repeat(Repeat(0, ag.n_atoms),
                                                        k)],
                                  NoLabel, now)
               IN  r.err = "" => CoordsShown(r.ag, i, 0)
        /\ \A w \in ViewsAt(i) :
               LET r == IF views[w].kind = "Atom"
                        THEN atomSetData(ag, views[w], "names", 1)
                        ELSE subsetSetData(ag, views[w], "names", 1)
               IN  r.err = "" => /\ DataShown(r.ag, "names", i, 1)
                                 /\ SameOutside(ag, r.ag, views[w])
        /\ \A w \in ViewsAt(i) :
               LET r == IF views[w].kind = "Atom"
                        THEN atomSetCoords(ag, views[w], 1, now)
                        ELSE subsetSetCoords(ag, views[w], 1, now)
               IN  (views[w].acsi # NoneInt /\ r.err = "")
                       => /\ CoordsShown(r.ag, i, 1)
                          /\ SameOutside(ag, r.ag, views[w])

\* C28: for every store, loadAtoms(saveAtoms(store)) succeeds and returns a
\* store with the same numAtoms(), numCoordsets(), coordinate sets, field
\* arrays and user data, on which addCoordset raises or succeeds as on the
\* saved store and leaves the same coordinate sets.
C28_SaveLoad ==
    LET r == loadAtoms(saveAtoms(ag))
    IN  /\ r.err = ""
        /\ numAtoms(r.ag) = numAtoms(ag)
        /\ numCoordsets(r.ag) = numCoordsets(ag)
        /\ getCoordsets(r.ag) = getCoordsets(ag)
        /\ r.ag.data = ag.data
        /\ \A arr \in Arrays2 :
               LET a == addCoordset(ag, arr, NoLabel, now)
                   b == addCoordset(r.ag, arr, NoLabel, now)
               IN  /\ b.err = a.err
                   /\ getCoordsets(b.ag) = getCoordsets(a.ag)

\* C29: saveAtoms succeeds for every view, and loadAtoms of the file
\* returns a store whose numAtoms() is that of the view and whose field
\* arrays and user data all have that many entries.
C29_SaveView ==
    \A v \in DOMAIN views :
        LET r == saveAtomsView(ag, views[v])
        IN  /\ r.err = ""
            /\ LET l == loadAtoms(r.file)
               IN  /\ l.err = ""
                   /\ numAtoms(l.ag) = NumAtoms(views[v])
                   /\ \A k \in DataKeys :
                          l.ag.data[k].some
                              => Len(l.ag.data[k].val) = NumAtoms(views[v])

\* C30: in every state of a store that has coordinate sets, the list of
\* coordinate set labels has exactly numCoordsets() entries.
C30_LabelCount ==
    ag.n_csets > 0
        => ag.cslabels.some /\ Len(ag.cslabels.val) = numCoordsets(ag)

\* C31: a store with coordinate sets has one time stamp per coordinate set,
\* and a call of setCoords on the store or on a view, of nextFrame or of
\* gotoFrame that succeeds leaves the current time as the time stamp of
\* every coordinate set whose coordinates it has changed.
C31_TimeStamps ==
    [][/\ ag'.n_csets > 0
              => /\ ag'.timestamps.some
                 /\ Len(ag'.timestamps.val) = ag'.n_csets
       /\ (/\ op'.name \in {"setCoords", "atom.setCoords", "map.setCoords",
                            "nextFrame", "gotoFrame"}
           /\ op'.err = "")
              => \A j \in 1..Len(Csets(ag')) :
                     (j > Len(Csets(ag)) \/ Csets(ag')[j] # Csets(ag)[j])
                         => /\ ag'.timestamps.some
                            /\ j <= Len(ag'.timestamps.val)
                            /\ ag'.timestamps.val[j] = now]_vars

\* C32: a view obtained by indexing the Store has, in the state in which it
\* is obtained, the active coordinate set index of the Store.
C32_ViewIndex ==
    [][Len(views') = Len(views) + 1
           => views'[Len(views')].acsi = ag'.acsi]_vars

\* C33: while a trajectory is bound, after every nextFrame(step), step >= 1,
\* and every gotoFrame(n) that succeeds, getFrameIndex() is the source index
\* of the frame read last, whose coordinates the active coordinate set holds.
C33_FrameIndex ==
    [][(/\ op'.name \in {"nextFrame", "gotoFrame"}
        /\ op'.err = ""
        /\ ag'.trajectory)
           => /\ ag'.tcsi = tnext' - 1
              /\ getCoords(ag') = Some(Frame(ag'.tcsi))]_vars

\* C34: building or requesting the hierarchical view of the store or of a
\* selection leaves the store's data as it was: a field that was unset is
\* still unset, and no field value, label or coordinate changes.
C34_HierViewReadOnly ==
    [][op'.name \in {"getHierView", "selection.getHierView"}
          => /\ ag'.data = ag.data
             /\ ag'.n_atoms = ag.n_atoms
             /\ ag'.coordinates = ag.coordinates
             /\ ag'.cslabels = ag.cslabels]_vars

\* C35: indexing a store of n atoms with an integer outside [-n, n) raises
\* IndexError, and every Atom view refers to an index in [0, n).
C35_AtomIndexRange ==
    [][/\ \A index \in {-(MaxAtoms + 1), 0, MaxAtoms} :
              (GetItem(index) /\ (index < -ag.n_atoms \/ index >= ag.n_atoms))
                  => op'.err = "IndexError" /\ views' = views
       /\ \A v \in DOMAIN views' :
              views'[v].kind = "Atom"
                  => views'[v].indices[1] \in 0..(ag'.n_atoms - 1)]_vars

\* C36: while the store has coordinates, the active index of every view
\* that was made with one is an index of the store's stack, whatever
\* delCoordset, setCoords or trajectory unbinding did to the stack, and
\* getCoords() of a view of existing atoms does not raise.
C36_ViewIndexInStack ==
    ag.coordinates.some
        => \A v \in DOMAIN views :
               views[v].acsi # NoneInt
                   => /\ views[v].acsi \in 0..(ag.n_csets - 1)
                      /\ (\A j \in 1..Len(views[v].indices) :
                              views[v].indices[j] \in 0..(ag.n_atoms - 1))
                             => viewGetCoords(ag, views[v]).err = ""

\* C37: a field setter, setACSIndex or setTrajectory call that raises leaves
\* the store as it was: numAtoms(), the active index, the labels and the
\* frame index are those before the call.
C37_FailedCallNoChange ==
    [][(/\ op'.name \in {"setField", "setACSIndex", "setTrajectory"}
        /\ op'.err # "")
           => ag' = ag]_vars

\* C38: setTrajectory(None) on a store without a trajectory leaves the
\* coordinate stack, numCoordsets(), the active index and the coordinate-set
\* labels as they were.
C38_UnbindUnbound ==
    [][(op'.name = "setTrajectory(None)" /\ ~ag.trajectory)
           => /\ ag'.coordinates = ag.coordinates
              /\ numCoordsets(ag') = numCoordsets(ag)
              /\ ag'.acsi = ag.acsi
              /\ ag'.cslabels = ag.cslabels]_vars

\* C39: delCoordset(index) for a set other than the active one, on a store
\* of two or more sets, leaves the array getCoords() returns as it was.
C39_DeleteOtherSet ==
    [][(/\ op'.name = "delCoordset"
        /\ op'.err = ""
        /\ ag.n_csets >= 2
        /\ \E index \in CsetIndices :
               /\ DelCoordset(index)
               /\ index # ag.acsi
               /\ index + ag.n_csets # ag.acsi)
           => getCoords(ag') = getCoords(ag)]_vars

====
